---- MODULE Spec2Model ----
(***************************************************************************)
(* A model of bbs, a router for SOCKS5 / HTTP CONNECT proxies.             *)
(*                                                                         *)
(*   SpecRoute   the rule evaluator and the routing table lookup           *)
(*                                                                         *)
(* Strings are modelled as sequences of tokens: a token is a numeral, a    *)
(* punctuation sign or a label (a run of letters).  Parsing functions      *)
(* (net.SplitHostPort, net.ParseIP, net.ParseCIDR, regexp.Match) work on   *)
(* these sequences the way the Go library works on bytes.                  *)
(***************************************************************************)
EXTENDS Integers, Sequences, FiniteSets, TLC

VARIABLES
    \* ---- routing (SpecRoute)
    rtJson,     \* the routing table as declared in the JSON file
    rtTable,    \* the routingTable value built by UnmarshalJSON
    rtAddr,     \* the destination address handed to getRoute / evaluate
    rtOut,      \* what getRoute returned: [done, route, err]
    rtPc,       \* "parse" -> "route" -> "done"; "off" outside SpecRoute
    \* ---- rule evaluation (SpecEval)
    evRule,     \* the rule atom handed to rule.evaluate
    evAddr,     \* the address it is evaluated on
    evOut,      \* what evRule.evaluate(evAddr) returned: [done, val, err]
    evOutNeg,   \* what the atom with the flipped negate flag returned
    \* ---- the shared configuration (globals of package main)
    gArgPACPath, \* the -pac argument ("" when routing uses the JSON tables)
    gRouting,   \* gRoutingConf.routing: table name -> routingTable
    gChains,    \* gChainsConf.proxychains: chain name -> proxyChain
    gHosts,     \* gHosts: host -> replacement host
    \* ---- one client connection (SpecConn)
    handler,    \* the connHandle call: the handler's fields, locals and position
    client,     \* the client socket: [closed, got (what was written to it)]
    audit,      \* the audit lines emitted for this connection (their verbs)
    io,         \* outbound activity: [lookups (chain lookups), dns, dials]
    ctx,        \* cancel scopes: [conn, armed, expired, kcancel]
    connect,    \* the proxyChain.connect call: [pc, address, stack, conn, repr, err]
    sock,       \* the stream to the first hop: [state, peer, closedBy]
    hs,         \* the handshake goroutines started by connectN, oldest first
    \* ---- hot reload and the listeners (SpecReload)
    mainPc,     \* main's reload loop: "wait", "chains", "hosts", "routes", "diff", "start", "sleep"
    candidate,  \* index in Configs of the configuration parseMainConfig returned last
    accepted,   \* index in Configs of the configuration of the last completed reload
    startI,     \* the index i of the loop that starts the servers
    reloads,    \* number of signals taken from signalCh
    gen,        \* the configuration each global table was taken from: [chains, hosts, routes]
    heap,       \* the backing arrays ever allocated for gServerConf.servers
    gServers,   \* the slice gServerConf.servers: [arr (index in heap, 0 for nil), len]
    ctxs,       \* the contexts made by run(): [next (fresh id), cancelled (set of ids)]
    runs,       \* the goroutines executing server.run()
    conns,      \* the accepted connections whose connHandle has not returned
    crashed,    \* the process died on an unrecovered panic
    \* ---- the byte streams of one connection (SpecRelay)
    rpc,        \* the handler: "off", "request", "handshake", "relay", "returned", "failed"
    flow,       \* per direction ("up": client to target, "down": target to client):
                \* [toSend, wire, buffered, delivered, eof, st, why]
    closedConns, \* the sockets among "client" and "target" the program has closed
    wg,         \* the counter of relay's sync.WaitGroup
    \* ---- the time connect takes (SpecDial)
    dial,       \* one connect call: [pc, now, dialAt, chain, cancelled, err, by]
    \* ---- the handshakes of the dialers (socks5.go, httpconnect.go)
    codec,      \* one address through stringToAddr and addrToString
    s5,         \* one socks5.handshake call and the stream it reads
    hc,         \* one httpConnect.handshake call and the stream it reads
    \* ---- the locks and the shared variables (SpecSync)
    sync        \* [mu: the mutexes, pc: each goroutine's position, acc: the access
                \* each goroutine is making, prog: each goroutine's operations]

routeVars == <<rtJson, rtTable, rtAddr, rtOut, rtPc>>
evalVars == <<evRule, evAddr, evOut, evOutNeg>>

confVars == <<gArgPACPath, gRouting, gChains, gHosts>>
connVars == <<handler, client, audit, io, ctx, connect, sock, hs>>

reloadVars == <<mainPc, candidate, accepted, startI, reloads, gen, heap, gServers, ctxs,
                runs, conns, crashed>>

relayVars == <<rpc, flow, closedConns, wg>>

handshakeVars == <<codec, s5, hc>>

vars == <<routeVars, evalVars, confVars, connVars, reloadVars, relayVars, dial, handshakeVars, sync>>

-----------------------------------------------------------------------------
(* Bounds of the model *)

\* the longest routing table (number of declared rule blocks)
MaxBlocks == 2

\* the longest proxy chain
MaxChain == 2

\* the number of signals main takes from signalCh
MaxReloads == 3

\* the number of bytes each peer sends after its request or reply
MaxPayload == 2

\* the longest chain timeout, in seconds
MaxTimeout == 3

\* the number of accepted connections whose handler runs at one time
MaxConns == 1

\* the number of lines an upstream HTTP proxy sends after its status line
MaxHeaders == 2

-----------------------------------------------------------------------------
(* Tokens and strings *)

Num(n) == [k |-> "num", n |-> n, s |-> ""]
Sym(c) == [k |-> "sym", n |-> 0, s |-> c]
Lab(w) == [k |-> "lab", n |-> 0, s |-> w]

IsNum(t) == t.k = "num"

\* a token that holds the byte ':'
HasColon(t) == t = Sym(":") \/ t = Sym("::")

Slice(s, i, j) == IF i > j THEN << >> ELSE SubSeq(s, i, j)

SetMin(S) == CHOOSE x \in S : \A y \in S : x <= y
SetMax(S) == CHOOSE x \in S : \A y \in S : x >= y

Pow2(n) == IF n = 0 THEN 1 ELSE IF n = 1 THEN 2 ELSE IF n = 2 THEN 4
           ELSE IF n = 3 THEN 8 ELSE IF n = 4 THEN 16 ELSE IF n = 5 THEN 32
           ELSE IF n = 6 THEN 64 ELSE IF n = 7 THEN 128 ELSE 256

Dotted(a, b, c, d) == <<Num(a), Sym("."), Num(b), Sym("."), Num(c), Sym("."), Num(d)>>

-----------------------------------------------------------------------------
(* net.SplitHostPort, net.ParseIP, net.ParseCIDR, IPNet.Contains *)

\* net.SplitHostPort: [host, port, err]
SplitHostPort(addr) ==
    LET colons == {i \in 1..Len(addr) : HasColon(addr[i])}
        bad    == [host |-> << >>, port |-> << >>, err |-> TRUE]
    IN  IF colons = {} THEN bad                                  \* missing port
        ELSE LET i == SetMax(colons) IN
             IF addr[i] # Sym(":") THEN bad
             ELSE IF addr[1] = Sym("[")
             THEN LET ends == {e \in 1..Len(addr) : addr[e] = Sym("]")} IN
                  IF ends = {} THEN bad                          \* missing ']'
                  ELSE LET e == SetMin(ends) IN
                       IF e + 1 # i THEN bad
                       ELSE [host |-> Slice(addr, 2, e - 1),
                             port |-> Slice(addr, i + 1, Len(addr)),
                             err  |-> FALSE]
             ELSE LET h == Slice(addr, 1, i - 1) IN
                  IF \E j \in 1..Len(h) : HasColon(h[j]) \/ h[j] \in {Sym("["), Sym("]")}
                  THEN bad                                       \* too many colons
                  ELSE [host |-> h, port |-> Slice(addr, i + 1, Len(addr)), err |-> FALSE]

\* a dotted quad d.d.d.d with every d <= 255
IsDottedQuad(h) ==
    /\ Len(h) = 7
    /\ \A j \in {1, 3, 5, 7} : IsNum(h[j]) /\ h[j].n <= 255
    /\ \A j \in {2, 4, 6} : h[j] = Sym(".")

\* net.ParseIP: [kind |-> "v4" | "v6" | "nil", oct |-> the four bytes To4() gives]
ParseIP(h) ==
    IF IsDottedQuad(h)
    THEN [kind |-> "v4", oct |-> <<h[1].n, h[3].n, h[5].n, h[7].n>>]
    ELSE IF Len(h) = 10 /\ h[1] = Sym("::") /\ h[2] = Lab("ffff") /\ h[3] = Sym(":")
            /\ IsDottedQuad(Slice(h, 4, 10))
    THEN \* an IPv4-mapped IPv6 literal: To4() is not nil
         [kind |-> "v4", oct |-> <<h[4].n, h[6].n, h[8].n, h[10].n>>]
    ELSE IF Len(h) >= 1 /\ h[1] = Sym("::")
            /\ \A j \in 2..Len(h) : IsNum(h[j]) \/ h[j] = Sym(":")
    THEN [kind |-> "v6", oct |-> << >>]
    ELSE [kind |-> "nil", oct |-> << >>]

\* net.ParseCIDR: [err, v4, oct, bits]
ParseCIDR(c) ==
    LET bad == [err |-> TRUE, v4 |-> FALSE, oct |-> << >>, bits |-> 0] IN
    IF Len(c) = 9 /\ IsDottedQuad(Slice(c, 1, 7)) /\ c[8] = Sym("/") /\ IsNum(c[9])
    THEN IF c[9].n <= 32
         THEN [err |-> FALSE, v4 |-> TRUE,
               oct |-> <<c[1].n, c[3].n, c[5].n, c[7].n>>, bits |-> c[9].n]
         ELSE bad
    ELSE IF Len(c) = 3 /\ c[1] = Sym("::") /\ c[2] = Sym("/") /\ IsNum(c[3])
    THEN IF c[3].n <= 128
         THEN [err |-> FALSE, v4 |-> FALSE, oct |-> << >>, bits |-> c[3].n]
         ELSE bad
    ELSE bad

\* the number of mask bits that fall in byte j (1..4) of a /bits mask
MaskBits(bits, j) ==
    LET r == bits - 8 * (j - 1) IN IF r < 0 THEN 0 ELSE IF r > 8 THEN 8 ELSE r

\* IPNet.Contains on the 4-byte form of an address
Contains(network, oct) ==
    /\ network.v4      \* a 16-byte network never contains a 4-byte address
    /\ \A j \in 1..4 :
          LET sh == Pow2(8 - MaskBits(network.bits, j))
          IN  (oct[j] \div sh) = (network.oct[j] \div sh)

-----------------------------------------------------------------------------
(* regexp.Match on token strings *)

\* the pattern without its leading ^ and trailing $
ReBody(c) ==
    LET a == IF Len(c) >= 1 /\ c[1] = Sym("^") THEN 2 ELSE 1
        b == IF Len(c) >= a /\ c[Len(c)] = Sym("$") THEN Len(c) - 1 ELSE Len(c)
    IN  Slice(c, a, b)

ReAnchStart(c) == Len(c) >= 1 /\ c[1] = Sym("^")
ReAnchEnd(c) == Len(c) >= 1 /\ c[Len(c)] = Sym("$") /\ (Len(c) > 1 \/ ~ReAnchStart(c))

ReGrouped(c) == LET b == ReBody(c) IN Len(b) >= 2 /\ b[1] = Sym("(") /\ b[Len(b)] = Sym(")")

\* the inside of the group, or the whole body
ReInner(c) == LET b == ReBody(c) IN IF ReGrouped(c) THEN Slice(b, 2, Len(b) - 1) ELSE b

\* regexp.Compile succeeds: the supported patterns are  ^? lit* $?  and
\* ^? ( lit* | lit* ... ) $? ; an unbalanced parenthesis is a syntax error.
ReCompiles(c) ==
    LET i == ReInner(c) IN
    /\ \A j \in 1..Len(i) : i[j] \notin {Sym("("), Sym(")"), Sym("^"), Sym("$")}
    /\ ReGrouped(c) \/ \A j \in 1..Len(i) : i[j] # Sym("|")

\* the alternatives of the pattern, each a literal token string
ReAlternatives(c) ==
    LET i    == ReInner(c)
        bars == {j \in 1..Len(i) : i[j] = Sym("|")}
        cuts == {0} \cup bars \cup {Len(i) + 1}
    IN  {Slice(i, a + 1, b - 1) :
            <<a, b>> \in {p \in cuts \X cuts :
                            p[1] < p[2] /\ ~\E m \in cuts : p[1] < m /\ m < p[2]}}

\* regexp.Match: [matched, err]
ReMatch(c, s) ==
    IF ~ReCompiles(c) THEN [matched |-> FALSE, err |-> TRUE]
    ELSE [err |-> FALSE,
          matched |->
            \E alt \in ReAlternatives(c) :
              \E st \in 1..(Len(s) + 1) :
                /\ st + Len(alt) - 1 <= Len(s)
                /\ Slice(s, st, st + Len(alt) - 1) = alt
                /\ ReAnchStart(c) => st = 1
                /\ ReAnchEnd(c) => st + Len(alt) - 1 = Len(s)]

-----------------------------------------------------------------------------
(* rule.evaluate, ruleCombo.evaluate, routingTable.getRoute *)

Atom(kind, variable, content, negate) ==
    [type |-> "rule", Rule |-> kind, Variable |-> variable,
     Content |-> content, Negate |-> negate]

Combo(r1, op, r2) == [type |-> "combo", Rule1 |-> r1, Op |-> op, Rule2 |-> r2]

EvalErr == [val |-> TRUE, err |-> TRUE]
EvalOk(b) == [val |-> b, err |-> FALSE]

\* rule.evaluate with the negate flag ignored by subnet rules
RuleEvaluateSubnetIgnoresNegate(r, addr) ==
    LET sp == SplitHostPort(addr) IN
    IF sp.err THEN EvalErr
    ELSE IF r.Rule = "regexp"
    THEN IF r.Variable \notin {"host", "port", "addr"} THEN EvalErr
         ELSE LET variable == IF r.Variable = "host" THEN sp.host
                              ELSE IF r.Variable = "port" THEN sp.port ELSE addr
                  m == ReMatch(r.Content, variable)
              IN  IF m.err THEN EvalErr ELSE EvalOk(r.Negate # m.matched)
    ELSE IF r.Rule = "subnet"
    THEN LET ip == ParseIP(sp.host) IN
         IF ip.kind # "v4" THEN EvalOk(FALSE)
         ELSE LET network == ParseCIDR(r.Content) IN
              IF network.err THEN EvalErr
              ELSE EvalOk(Contains(network, ip.oct))
    ELSE EvalErr

\* rule.evaluate
RuleEvaluate(r, addr) ==
    LET sp == SplitHostPort(addr) IN
    IF sp.err THEN EvalErr
    ELSE IF r.Rule = "regexp"
    THEN IF r.Variable \notin {"host", "port", "addr"} THEN EvalErr
         ELSE LET variable == IF r.Variable = "host" THEN sp.host
                              ELSE IF r.Variable = "port" THEN sp.port ELSE addr
                  m == ReMatch(r.Content, variable)
              IN  IF m.err THEN EvalErr ELSE EvalOk(r.Negate # m.matched)
    ELSE IF r.Rule = "subnet"
    THEN LET ip == ParseIP(sp.host) IN
         IF ip.kind # "v4" THEN EvalOk(FALSE)     \* host is not an IPv4 representation
         ELSE LET network == ParseCIDR(r.Content) IN
              IF network.err THEN EvalErr
              ELSE EvalOk(r.Negate # Contains(network, ip.oct))
    ELSE EvalErr                                  \* unknown rule type

OpAnd == {"AND", "and", "And", "&", "&&"}
OpOr == {"OR", "or", "Or", "|", "||"}

RECURSIVE EvaluateShortCircuit(_, _)
\* evaluate with an OR that does not look at its second child when the
\* first is true
EvaluateShortCircuit(r, addr) ==
    IF r.type = "rule" THEN RuleEvaluate(r, addr)
    ELSE LET r1 == EvaluateShortCircuit(r.Rule1, addr) IN
         IF r1.err THEN EvalErr
         ELSE IF r.Op \in OpOr /\ r1.val THEN EvalOk(TRUE)
         ELSE LET r2 == EvaluateShortCircuit(r.Rule2, addr) IN
              IF r2.err THEN EvalErr
              ELSE IF r.Op \in OpAnd THEN EvalOk(r1.val /\ r2.val)
              ELSE IF r.Op \in OpOr THEN EvalOk(r1.val \/ r2.val)
              ELSE EvalErr

RECURSIVE Evaluate(_, _)
\* evaluater.evaluate: a rule or a ruleCombo
Evaluate(r, addr) ==
    IF r.type = "rule" THEN RuleEvaluate(r, addr)
    ELSE LET r1 == Evaluate(r.Rule1, addr) IN
         IF r1.err THEN EvalErr
         ELSE LET r2 == Evaluate(r.Rule2, addr) IN
              IF r2.err THEN EvalErr
              ELSE IF r.Op \in OpAnd THEN EvalOk(r1.val /\ r2.val)
              ELSE IF r.Op \in OpOr THEN EvalOk(r1.val \/ r2.val)
              ELSE EvalErr

UnmarshalTableKeepsDisabled(j) ==
    [Default |-> IF j.hasDefault THEN j.Default ELSE "drop", Blocks |-> j.Blocks]

\* routingTable.UnmarshalJSON: the default route defaults to "drop" and only
\* the blocks that are not disabled are kept
UnmarshalTable(j) ==
    [Default |-> IF j.hasDefault THEN j.Default ELSE "drop",
     Blocks  |-> SelectSeq(j.Blocks, LAMBDA b : ~b.Disable)]

RECURSIVE GetRouteFrom(_, _, _)
\* the loop of getRoute, from block i on
GetRouteFrom(table, addr, i) ==
    IF i > Len(table.Blocks)
    THEN IF table.Default # "" THEN [route |-> table.Default, err |-> FALSE]
         ELSE [route |-> "drop", err |-> FALSE]
    ELSE LET m == Evaluate(table.Blocks[i].Rules, addr) IN
         IF m.err THEN [route |-> "", err |-> TRUE]
         ELSE IF m.val THEN [route |-> table.Blocks[i].Route, err |-> FALSE]
         ELSE GetRouteFrom(table, addr, i + 1)

\* getRoute with a loop that starts one block too far
GetRouteOffByOne(table, addr) == GetRouteFrom(table, addr, 2)

\* routingTable.getRoute
GetRoute(table, addr) == GetRouteFrom(table, addr, 1)

-----------------------------------------------------------------------------
(* Inputs of the routing specifications *)

AddrFoo == <<Lab("foo"), Sym(":"), Num(80)>>
AddrBar == <<Lab("bar"), Sym(":"), Num(443)>>
AddrTen == Dotted(10, 1, 2, 3) \o <<Sym(":"), Num(80)>>
AddrLan == Dotted(192, 168, 0, 1) \o <<Sym(":"), Num(22)>>
AddrV6 == <<Sym("["), Sym("::"), Num(1), Sym("]"), Sym(":"), Num(22)>>
AddrMapped == <<Sym("["), Sym("::"), Lab("ffff"), Sym(":")>> \o Dotted(10, 1, 2, 3)
              \o <<Sym("]"), Sym(":"), Num(80)>>
AddrNoPort == <<Lab("foo")>>

\* well-formed host:port addresses: a domain, IPv4 literals, IPv6 literals
GoodAddrs == {AddrFoo, AddrBar, AddrTen, AddrLan, AddrV6, AddrMapped}
Addrs == GoodAddrs \cup {AddrNoPort}

ReFoo == <<Sym("^"), Lab("foo"), Sym("$")>>
RePorts == <<Sym("^"), Sym("("), Num(80), Sym("|"), Num(443), Sym(")"), Sym("$")>>
ReTenDot == <<Num(10), Sym(".")>>
ReBroken == <<Sym("("), Lab("foo")>>
CidrTen == Dotted(10, 0, 0, 0) \o <<Sym("/"), Num(8)>>
CidrLan == Dotted(192, 168, 0, 0) \o <<Sym("/"), Num(20)>>
CidrV6 == <<Sym("::"), Sym("/"), Num(0)>>
CidrBroken == Dotted(10, 0, 0, 0) \o <<Sym("/"), Num(33)>>

\* rule atoms of kind regexp (on one of the three variables) or subnet whose
\* content is well-formed
GoodAtoms ==
    {Atom("regexp", v, c, n) :
        v \in {"host", "port", "addr"}, c \in {ReFoo, RePorts, ReTenDot}, n \in BOOLEAN}
    \cup {Atom("subnet", "", c, n) : c \in {CidrTen, CidrLan, CidrV6}, n \in BOOLEAN}

BadAtoms ==
    {Atom("regexp", "host", ReBroken, n) : n \in BOOLEAN}
    \cup {Atom("regexp", "", ReFoo, n) : n \in BOOLEAN}
    \cup {Atom("subnet", "", CidrBroken, n) : n \in BOOLEAN}
    \cup {Atom("true", "", << >>, FALSE)}

Block(rules, route, disable) ==
    [Comment |-> "", Rules |-> rules, Route |-> route, Disable |-> disable]

\* the rule blocks the declared tables are made of
BlockPool ==
    { Block(Atom("regexp", "host", ReFoo, FALSE), "A", FALSE),
      Block(Atom("subnet", "", CidrTen, FALSE), "B", FALSE),
      Block(Atom("regexp", "port", RePorts, TRUE), "drop", FALSE),
      Block(Atom("regexp", "host", ReFoo, FALSE), "B", TRUE),
      Block(Combo(Atom("regexp", "port", RePorts, FALSE), "AND",
                  Atom("subnet", "", CidrTen, FALSE)), "A", FALSE),
      Block(Atom("regexp", "host", ReBroken, FALSE), "B", FALSE),
      Block(Combo(Atom("regexp", "host", ReFoo, FALSE), "or",
                  Atom("subnet", "", CidrBroken, FALSE)), "B", FALSE),
      Block(Atom("subnet", "", CidrBroken, FALSE), "A", TRUE) }

SeqsUpTo(S, n) == UNION {[1..m -> S] : m \in 0..n}

\* the declared tables: "default" may be absent, empty or a chain name
JsonTables ==
    {[hasDefault |-> d[1], Default |-> d[2], Blocks |-> bs] :
        d \in {<<FALSE, "">>, <<TRUE, "">>, <<TRUE, "C">>},
        bs \in SeqsUpTo(BlockPool, MaxBlocks)}

ZeroTable == [Default |-> "", Blocks |-> << >>]
NoRoute == [done |-> FALSE, route |-> "", err |-> FALSE]
NoEval == [done |-> FALSE, val |-> FALSE, err |-> FALSE]

RouteOff ==
    /\ rtJson = [hasDefault |-> FALSE, Default |-> "", Blocks |-> << >>]
    /\ rtTable = ZeroTable
    /\ rtAddr = << >>
    /\ rtOut = NoRoute
    /\ rtPc = "off"

EvalOff ==
    /\ evRule = Atom("", "", << >>, FALSE)
    /\ evAddr = << >>
    /\ evOut = NoEval
    /\ evOutNeg = NoEval


\* the globals before the first configuration is loaded
ConfOff ==
    /\ gArgPACPath = ""
    /\ gRouting = << >>
    /\ gChains = << >>
    /\ gHosts = << >>

NoHandler == [kind |-> "", table |-> "", chain |-> "", dest |-> << >>, pc |-> "off",
              want |-> << >>, addr |-> << >>, chainStr |-> "", deferTarget |-> FALSE,
              relayed |-> FALSE,
              req |-> [readOk |-> TRUE, method |-> "CONNECT", hostMatches |-> TRUE],
              greeting |-> [readOk |-> TRUE, ver |-> 5, methods |-> {0}],
              sreq |-> [readOk |-> TRUE, cmd |-> 1, addrOk |-> TRUE]]
NoConnect == [pc |-> "idle", address |-> << >>, stack |-> << >>, conn |-> FALSE,
              repr |-> << >>, err |-> "", chain |-> << >>]
NoSock == [state |-> "none", peer |-> << >>, closedBy |-> ""]
NoCtx == [conn |-> FALSE, armed |-> FALSE, expired |-> FALSE, kcancel |-> FALSE]
NoIo == [lookups |-> 0, dns |-> << >>, dials |-> << >>]

\* no byte stream is followed
NoFlow == [toSend |-> << >>, wire |-> << >>, buffered |-> << >>, delivered |-> << >>,
           eof |-> FALSE, st |-> "idle", why |-> ""]
RelayOff ==
    /\ rpc = "off"
    /\ flow = [d \in {"up", "down"} |-> NoFlow]
    /\ closedConns = {}
    /\ wg = 0

\* no connect call is timed
NoDial == [pc |-> "off", now |-> 0, dialAt |-> 0, chain |-> << >>, cancelled |-> FALSE,
           err |-> "", by |-> ""]
DialOff == dial = NoDial

\* no address is coded and no dialer handshake runs
NoCodec == [pc |-> "off", addr |-> << >>, atyp |-> 0, data |-> << >>, encErr |-> FALSE,
            out |-> << >>, decErr |-> FALSE]
NoS5 == [pc |-> "off", user |-> FALSE, address |-> << >>,
         proxy |-> [ver |-> 5, method |-> 0, rep |-> 0, atyp |-> 1, payload |-> << >>],
         toSend |-> << >>, sent |-> 0, wire |-> << >>, buffered |-> << >>, eof |-> FALSE,
         got |-> << >>, wrote |-> << >>, err |-> ""]
NoHc == [pc |-> "off", user |-> FALSE, address |-> << >>, lines |-> << >>, eof |-> FALSE,
         nread |-> 0, wrote |-> << >>, err |-> ""]
HandshakeOff == codec = NoCodec /\ s5 = NoS5 /\ hc = NoHc

\* no goroutine is followed through the locks
NoSync == [mu |-> << >>, pc |-> << >>, acc |-> << >>, prog |-> << >>]
SyncOff == sync = NoSync

\* the state of main before the first signal is taken
ReloadOff ==
    /\ mainPc = "wait"
    /\ candidate = 0
    /\ accepted = 0
    /\ startI = 0
    /\ reloads = 0
    /\ gen = [chains |-> 0, hosts |-> 0, routes |-> 0]
    /\ heap = << >>
    /\ gServers = [arr |-> 0, len |-> 0]
    /\ ctxs = [next |-> 1, cancelled |-> {}]
    /\ runs = {}
    /\ conns = {}
    /\ crashed = FALSE

\* no client connection
ConnOff ==
    /\ handler = NoHandler
    /\ client = [closed |-> FALSE, got |-> << >>]
    /\ audit = << >>
    /\ io = NoIo
    /\ ctx = NoCtx
    /\ connect = NoConnect
    /\ sock = NoSock
    /\ hs = << >>

-----------------------------------------------------------------------------
(* SpecRoute: a declared table is parsed, then getRoute is called on it *)

InitRoute ==
    /\ rtJson \in JsonTables
    /\ rtAddr \in Addrs
    /\ rtTable = ZeroTable
    /\ rtOut = NoRoute
    /\ rtPc = "parse"
    /\ EvalOff /\ ConfOff /\ ConnOff /\ ReloadOff /\ RelayOff /\ DialOff /\ HandshakeOff /\ SyncOff

\* json decoding of the routes section: routingTable.UnmarshalJSON
ParseTable ==
    /\ rtPc = "parse"
    /\ rtTable' = UnmarshalTable(rtJson)
    /\ rtPc' = "route"
    /\ UNCHANGED <<rtJson, rtAddr, rtOut, evalVars, confVars, reloadVars, connVars, relayVars, dial, handshakeVars, sync>>

\* table.getRoute(addr)
CallGetRoute ==
    /\ rtPc = "route"
    /\ rtOut' = [done |-> TRUE] @@ GetRoute(rtTable, rtAddr)
    /\ rtPc' = "done"
    /\ UNCHANGED <<rtJson, rtTable, rtAddr, evalVars, confVars, reloadVars, connVars, relayVars, dial, handshakeVars, sync>>

NextRoute == ParseTable \/ CallGetRoute

SpecRoute == InitRoute /\ [][NextRoute]_vars

-----------------------------------------------------------------------------
(* SpecEval: a rule atom and the same atom with the negate flag flipped are *)
(* evaluated on an address                                                  *)

InitEval ==
    /\ evRule \in GoodAtoms \cup BadAtoms
    /\ evAddr \in Addrs
    /\ evOut = NoEval
    /\ evOutNeg = NoEval
    /\ RouteOff /\ ConfOff /\ ConnOff /\ ReloadOff /\ RelayOff /\ DialOff /\ HandshakeOff /\ SyncOff

FlipNegate(r) == [r EXCEPT !.Negate = ~r.Negate]

CallEvaluate ==
    /\ ~evOut.done
    /\ evOut' = [done |-> TRUE] @@ RuleEvaluate(evRule, evAddr)
    /\ evOutNeg' = [done |-> TRUE] @@ RuleEvaluate(FlipNegate(evRule), evAddr)
    /\ UNCHANGED <<evRule, evAddr, routeVars, confVars, reloadVars, connVars, relayVars, dial, handshakeVars, sync>>

NextEval == CallEvaluate

SpecEval == InitEval /\ [][NextEval]_vars

-----------------------------------------------------------------------------
(* Claims on the routing engine *)

\* the blocks of the declared table that are enabled and evaluate to true
DeclaredHits ==
    {i \in 1..Len(rtJson.Blocks) :
        /\ ~rtJson.Blocks[i].Disable
        /\ LET e == Evaluate(rtJson.Blocks[i].Rules, rtAddr) IN ~e.err /\ e.val}

\* C1: when getRoute returns without error, the route is that of the
\* lowest-index enabled block whose rule tree is true on the address; with no
\* such block it is the table's default, and "drop" when the default is
\* absent or empty.
C1_FirstMatchElseDefaultElseDrop ==
    (rtOut.done /\ ~rtOut.err) =>
        rtOut.route =
            IF DeclaredHits # {} THEN rtJson.Blocks[SetMin(DeclaredHits)].Route
            ELSE IF rtJson.hasDefault /\ rtJson.Default # "" THEN rtJson.Default
            ELSE "drop"

\* C1 witness: the second declared block wins although a later-or-equal
\* enabled block exists and the first block did not match
C1_Witness ==
    /\ rtOut.done /\ ~rtOut.err
    /\ Len(rtJson.Blocks) = 2
    /\ DeclaredHits = {2}
    /\ ~rtJson.Blocks[1].Disable
    /\ rtOut.route = "B"

\* the well-formed case of C2: well-formed content, well-formed address
EvalWellFormed == evOut.done /\ evRule \in GoodAtoms /\ evAddr \in GoodAddrs

\* C2 as stated: on well-formed input evaluate returns a boolean without
\* error and flipping the negate flag flips the result.
C2_Original_NegateFlips ==
    EvalWellFormed =>
        /\ ~evOut.err /\ ~evOutNeg.err
        /\ evOutNeg.val = ~evOut.val

\* the host of the evaluated address parses as an IPv4 address
EvalHostIsIPv4 == ParseIP(SplitHostPort(evAddr).host).kind = "v4"

\* C2 amended: for a regexp atom (on host, port or addr), and for a subnet
\* atom on a host that is an IPv4 address, evaluate returns a
\* boolean without error and flipping negate flips the result; a subnet atom
\* on any other host returns false without error whatever the negate flag.
C2_NegateFlipsExceptSubnetOnNonIPv4 ==
    EvalWellFormed =>
        /\ evRule.Rule = "regexp" =>
              (~evOut.err /\ ~evOutNeg.err /\ evOutNeg.val = ~evOut.val)
        /\ (evRule.Rule = "subnet" /\ EvalHostIsIPv4) =>
              (~evOut.err /\ ~evOutNeg.err /\ evOutNeg.val = ~evOut.val)
        /\ (evRule.Rule = "subnet" /\ ~EvalHostIsIPv4) =>
              (~evOut.err /\ ~evOutNeg.err /\ ~evOut.val /\ ~evOutNeg.val)

\* C2 witness: a negated subnet atom evaluated on a domain name
C2_Witness ==
    /\ EvalWellFormed
    /\ evRule.Rule = "subnet" /\ evRule.Negate
    /\ evAddr = AddrFoo
    /\ ~evOut.val /\ ~evOutNeg.val

-----------------------------------------------------------------------------
(* Proxies, chains and the configuration of SpecConn *)

\* proxy.address() of the i-th declared proxy
ProxyAddress(i) == <<Lab("px"), Num(i), Sym(":"), Num(1080)>>

\* the i-th declared proxy: odd ones are SOCKS5, even ones HTTP CONNECT
Proxy(i) == [prot |-> IF i % 2 = 1 THEN "socks5" ELSE "http", address |-> ProxyAddress(i)]

\* a proxyChain made of the first n proxies
Chain(dns, n) ==
    [proxyDns |-> dns, tcpConnectTimeout |-> 1000, tcpReadTimeout |-> 2000,
     proxies |-> [i \in 1..n |-> Proxy(i)]]

\* chains tables: "L" (all the proxies), "S" (one proxy), "E" (no proxy), and,
\* when withDrop, a chain that is named "drop"
ChainsTable(dns, withDrop) ==
    [c \in {"L", "S", "E"} \cup (IF withDrop THEN {"drop"} ELSE {}) |->
        IF c = "L" THEN Chain(dns, MaxChain)
        ELSE IF c = "E" THEN Chain(dns, 0) ELSE Chain(dns, 1)]

\* routing tables of a listener
ConnTables ==
    { [Default |-> "S",
       Blocks |-> << Block(Atom("regexp", "host", ReFoo, FALSE), "drop", FALSE),
                     Block(Atom("subnet", "", CidrTen, FALSE), "L", FALSE) >>],
      [Default |-> "",
       Blocks |-> << Block(Atom("regexp", "port", RePorts, FALSE), "E", FALSE) >>],
      [Default |-> "drop",
       Blocks |-> << Block(Atom("subnet", "", CidrLan, FALSE), "Z", FALSE),
                     Block(Atom("regexp", "host", ReBroken, FALSE), "L", FALSE) >>],
      [Default |-> "S",
       Blocks |-> << Block(Combo(Atom("regexp", "host", ReFoo, FALSE), "OR",
                                 Atom("regexp", "host", ReBroken, FALSE)), "L", FALSE),
                     Block(Atom("subnet", "", CidrTen, FALSE), "L", FALSE) >>] }

\* hosts sections: none, or one that rewrites foo to 10.1.2.3 and 10.1.2.3,
\* itself a key, to bar
HostsTables ==
    { << >>,
      [x \in {<<Lab("foo")>>, Dotted(10, 1, 2, 3)} |->
          IF x = <<Lab("foo")>> THEN Dotted(10, 1, 2, 3) ELSE <<Lab("bar")>>] }

\* what FindProxyForURL may answer
PacAnswers ==
    {[route |-> r, err |-> FALSE] : r \in {"drop", "S", "Z"}} \cup {[route |-> "", err |-> TRUE]}

\* what net.DefaultResolver.LookupIP may answer
DnsAnswers == {"err", "empty", "ok"}
DnsFirstIPUnresolved == <<Lab("foo")>>
DnsFirstIP == Dotted(10, 7, 7, 7)

JoinHostPortDropsPort(host, port) == host

\* net.JoinHostPort
JoinHostPort(host, port) ==
    IF \E j \in 1..Len(host) : HasColon(host[j])
    THEN <<Sym("[")>> \o host \o <<Sym("]"), Sym(":")>> \o port
    ELSE host \o <<Sym(":")>> \o port

-----------------------------------------------------------------------------
(* The handlers: socks5Handler.connHandle, httpHandler.connHandle, *)
(* forwardHandler.connHandle                                        *)

SocksReply(bytes) == [proto |-> "socks5", bytes |-> bytes, status |-> 0]
HttpReply(status) == [proto |-> "http", bytes |-> << >>, status |-> status]

Socks5FailureNotAllowed(stage) ==
    IF stage = "cmd" THEN << SocksReply(<<5, 7>>) >> ELSE << SocksReply(<<5, 2>>) >>

\* what the SOCKS5 handler writes to the client when a stage fails
Socks5Failure(stage) ==
    IF stage = "cmd" THEN << SocksReply(<<5, 7>>) >>
    ELSE IF stage = "drop" THEN << SocksReply(<<5, 2>>) >>
    ELSE << SocksReply(<<5, 1>>) >>

HttpFailureBadGateway(stage) ==
    IF stage = "method" THEN << HttpReply(405) >>
    ELSE IF stage = "drop" THEN << HttpReply(403) >>
    ELSE IF stage \in {"nochain", "connect"} THEN << HttpReply(502) >>
    ELSE << HttpReply(400) >>

\* what the HTTP handler writes to the client when a stage fails
HttpFailure(stage) ==
    IF stage = "method" THEN << HttpReply(405) >>
    ELSE IF stage = "drop" THEN << HttpReply(403) >>
    ELSE IF stage = "nochain" THEN << HttpReply(500) >>
    ELSE IF stage = "connect" THEN << HttpReply(502) >>
    ELSE << HttpReply(400) >>

\* the forward handler writes nothing to the client
Failure(stage) ==
    IF handler.kind = "socks5" THEN Socks5Failure(stage)
    ELSE IF handler.kind = "http" THEN HttpFailure(stage)
    ELSE << >>

\* connHandle returns before a target exists: the replies and audit lines of
\* the failing stage, then the deferred cancel() and client.Close()
Return(replies, lines) ==
    /\ handler' = [handler EXCEPT !.pc = "closed"]
    /\ client' = [closed |-> TRUE, got |-> client.got \o replies]
    /\ audit' = audit \o lines
    /\ ctx' = [ctx EXCEPT !.conn = @ \/ handler.kind # "fwd"]

\* what a SOCKS5 client may send as method negotiation
ClientGreetings ==
    {[readOk |-> TRUE, ver |-> v, methods |-> m] : v \in {4, 5}, m \in {{0}, {2}, {0, 2}}}
    \cup {[readOk |-> FALSE, ver |-> 0, methods |-> {}]}

\* SOCKS5: version and methods are read, the selected method is sent
Socks5Greeting ==
    /\ handler.kind = "socks5" /\ handler.pc = "greeting"
    /\ \E writeOk \in BOOLEAN :
          LET g == handler.greeting IN
          IF ~g.readOk \/ g.ver # 5 \/ 0 \notin g.methods \/ ~writeOk
          THEN Return(<< >>, << >>)
          ELSE /\ client' = [client EXCEPT !.got = Append(@, SocksReply(<<5, 0>>))]
               /\ handler' = [handler EXCEPT !.pc = "request"]
               /\ UNCHANGED <<audit, ctx>>
    /\ UNCHANGED <<io, connect, sock, hs, confVars, reloadVars, routeVars, evalVars, relayVars, dial, handshakeVars, sync>>

\* what a SOCKS5 client may send as its request: nothing that can be read
\* in full, or VER CMD RSV ATYP with CMD CONNECT, BIND or UDP ASSOCIATE,
\* followed by an address that can or cannot be read
ClientSocksRequests ==
    {[readOk |-> TRUE, cmd |-> c, addrOk |-> b] : c \in {1, 2, 3}, b \in BOOLEAN}
    \cup {[readOk |-> FALSE, cmd |-> 0, addrOk |-> FALSE]}

\* SOCKS5: VER CMD RSV ATYP and the destination address are read
Socks5Request ==
    /\ handler.kind = "socks5" /\ handler.pc = "request"
    /\ IF ~handler.sreq.readOk THEN Return(<< >>, << >>)
       ELSE IF handler.sreq.cmd # 1 THEN Return(Failure("cmd"), << >>)
       ELSE IF ~handler.sreq.addrOk THEN Return(Failure("addr"), << >>)
       ELSE /\ handler' = [handler EXCEPT !.pc = "route", !.addr = handler.want]
            /\ UNCHANGED <<client, audit, ctx>>
    /\ UNCHANGED <<io, connect, sock, hs, confVars, reloadVars, routeVars, evalVars, relayVars, dial, handshakeVars, sync>>

\* what an HTTP client may send as its request: nothing http.ReadRequest can
\* parse, or a request with a method and a Host header that is or is not the
\* authority of the request target
ClientRequests ==
    {[readOk |-> TRUE, method |-> m, hostMatches |-> b] : m \in {"CONNECT", "GET"}, b \in BOOLEAN}
    \cup {[readOk |-> FALSE, method |-> "", hostMatches |-> FALSE]}

\* HTTP: the request is read; it must be a CONNECT whose Host is its target
HttpRequest ==
    /\ handler.kind = "http" /\ handler.pc = "request"
    /\ IF ~handler.req.readOk THEN Return(<< >>, << >>)
       ELSE IF handler.req.method # "CONNECT" THEN Return(Failure("method"), << >>)
       ELSE IF ~handler.req.hostMatches THEN Return(Failure("host"), << >>)
       ELSE /\ handler' = [handler EXCEPT !.pc = "route", !.addr = handler.want]
            /\ UNCHANGED <<client, audit, ctx>>
    /\ UNCHANGED <<io, connect, sock, hs, confVars, reloadVars, routeVars, evalVars, relayVars, dial, handshakeVars, sync>>

\* the routing decision: the PAC script, or the listener's table of the JSON
\* configuration
RoutingDecision ==
    /\ handler.kind \in {"socks5", "http"} /\ handler.pc = "route"
    /\ \E pac \in PacAnswers :
          LET r == IF gArgPACPath # "" THEN pac
                   ELSE IF handler.table \notin DOMAIN gRouting
                   THEN [route |-> "", err |-> TRUE]
                   ELSE GetRoute(gRouting[handler.table], handler.addr)
          IN  IF r.err THEN Return(Failure("route"), << >>)
              ELSE /\ handler' = [handler EXCEPT !.pc = "dropcheck", !.chainStr = r.route]
                   /\ UNCHANGED <<client, audit, ctx>>
    /\ UNCHANGED <<io, connect, sock, hs, confVars, reloadVars, routeVars, evalVars, relayVars, dial, handshakeVars, sync>>

IsDropRouteNever(chainStr) == FALSE

\* chainStr == "drop"
IsDropRoute(chainStr) == chainStr = "drop"

\* the reserved route "drop": the connection is denied
DropCheck ==
    /\ handler.pc = "dropcheck"
    /\ IF IsDropRoute(handler.chainStr)
       THEN Return(Failure("drop"), <<"DROPPED">>)
       ELSE /\ handler' = [handler EXCEPT !.pc = "lookup"]
            /\ UNCHANGED <<client, audit, ctx>>
    /\ UNCHANGED <<io, connect, sock, hs, confVars, reloadVars, routeVars, evalVars, relayVars, dial, handshakeVars, sync>>

\* the chain is looked up in gChainsConf.proxychains; connect is then called
ChainLookup ==
    /\ handler.pc = "lookup"
    /\ io' = [io EXCEPT !.lookups = @ + 1]
    /\ IF handler.chainStr \notin DOMAIN gChains
       THEN /\ Return(Failure("nochain"), << >>)
            /\ UNCHANGED connect
       ELSE /\ handler' = [handler EXCEPT !.pc = "connect"]
            /\ connect' = [NoConnect EXCEPT !.pc = "hosts", !.address = handler.addr,
                                            !.chain = gChains[handler.chainStr]]
            /\ UNCHANGED <<client, audit, ctx>>
    /\ UNCHANGED <<sock, hs, confVars, reloadVars, routeVars, evalVars, relayVars, dial, handshakeVars, sync>>

-----------------------------------------------------------------------------
(* proxyChain.connect and proxyChain.connectN *)

CtxDoneIgnoresDeadline == ctx.armed /\ (ctx.conn \/ ctx.kcancel)

\* the timeout context of connect is done
CtxDone == ctx.armed /\ (ctx.expired \/ ctx.conn \/ ctx.kcancel)

ArrowWithoutError(sign, addr, err) == [sign |-> sign, addr |-> addr, err |-> ""]

\* one segment of the chain trace: "---> addr", " ===> addr", or, with the
\* error in brackets, "-X-> addr (err)", " =X=> addr (err)"
Arrow(sign, addr, err) == [sign |-> sign, addr |-> addr, err |-> err]

\* connect returns an error before connectN is called: return nil, "", err
ConnectFailsEarly(err) ==
    [connect EXCEPT !.pc = "done", !.conn = FALSE, !.repr = << >>, !.err = err]

\* connect: the custom hosts replace the host of the address
ConnectHosts ==
    /\ handler.pc = "connect" /\ connect.pc = "hosts"
    /\ IF DOMAIN gHosts # {}
       THEN LET sp == SplitHostPort(connect.address) IN
            IF sp.err THEN connect' = ConnectFailsEarly("split")
            ELSE connect' = [connect EXCEPT
                    !.pc = "dns",
                    !.address = IF sp.host \in DOMAIN gHosts
                                THEN JoinHostPort(gHosts[sp.host], sp.port) ELSE @]
       ELSE connect' = [connect EXCEPT !.pc = "dns"]
    /\ UNCHANGED <<handler, client, audit, io, ctx, sock, hs, confVars, reloadVars, routeVars, evalVars, relayVars, dial, handshakeVars, sync>>

\* connect: with proxyDns=false a host that is no IP address is resolved locally
ConnectDns ==
    /\ handler.pc = "connect" /\ connect.pc = "dns"
    /\ IF connect.chain.proxyDns
       THEN connect' = [connect EXCEPT !.pc = "arm"] /\ UNCHANGED io
       ELSE LET sp == SplitHostPort(connect.address) IN
            IF sp.err THEN connect' = ConnectFailsEarly("split") /\ UNCHANGED io
            ELSE IF ParseIP(sp.host).kind # "nil"
            THEN connect' = [connect EXCEPT !.pc = "arm"] /\ UNCHANGED io
            ELSE \E a \in DnsAnswers :
                    /\ ctx.conn => a = "err"
                    /\ io' = [io EXCEPT !.dns = Append(@, sp.host)]
                    /\ connect' = IF a = "ok"
                                  THEN [connect EXCEPT !.pc = "arm",
                                          !.address = JoinHostPort(DnsFirstIP, sp.port)]
                                  ELSE ConnectFailsEarly("dns")
    /\ UNCHANGED <<handler, client, audit, ctx, sock, hs, confVars, reloadVars, routeVars, evalVars, relayVars, dial, handshakeVars, sync>>

\* connect: context.WithTimeout(ctx, tcpReadTimeout), then connectN(len(proxies), address)
ConnectArm ==
    /\ handler.pc = "connect" /\ connect.pc = "arm"
    /\ ctx' = [ctx EXCEPT !.armed = TRUE]
    /\ connect' = [connect EXCEPT
            !.pc = "run",
            !.stack = << [n |-> Len(connect.chain.proxies), address |-> connect.address,
                          pc |-> "enter"] >>]
    /\ UNCHANGED <<handler, client, audit, io, sock, hs, confVars, reloadVars, routeVars, evalVars, relayVars, dial, handshakeVars, sync>>

\* the running connectN call
Top == connect.stack[Len(connect.stack)]

\* the running connectN call returns (conn, repr, err) to its caller: a
\* calling connectN returns at once on error and goes on to its handshake
\* otherwise; connect returns what the outermost call returned
FrameReturns(conn, repr, err) ==
    LET rest == Slice(connect.stack, 1, Len(connect.stack) - 1) IN
    IF err # "" \/ rest = << >>
    THEN [connect EXCEPT !.stack = << >>, !.pc = "done",
                         !.conn = conn, !.repr = repr, !.err = err]
    ELSE [connect EXCEPT !.stack = [rest EXCEPT ![Len(rest)].pc = "hs"],
                         !.conn = conn, !.repr = repr, !.err = ""]

\* the deferred cancel() of connect runs when connect returns
DeferredCancel(c) == [ctx EXCEPT !.kcancel = @ \/ c.pc = "done"]

CloseNothing(by) == sock

\* conn.Close()
Close(by) == IF sock.state = "open" THEN [sock EXCEPT !.state = "closed", !.closedBy = by]
             ELSE sock

SubchainTargetOffByOne(chain, n) == chain.proxies[n - 1].address

\* the address the subchain of n-1 proxies is asked to reach: proxies[n-1].address()
SubchainTarget(chain, n) == chain.proxies[n].address

\* connectN, n > 1: the recursive call for the shorter subchain
ConnectNRecurse ==
    /\ connect.pc = "run" /\ connect.stack # << >>
    /\ Top.pc = "enter" /\ Top.n > 1
    /\ connect' = [connect EXCEPT
            !.stack = Append([@ EXCEPT ![Len(@)].pc = "inner"],
                             [n |-> Top.n - 1,
                              address |-> SubchainTarget(connect.chain, Top.n),
                              pc |-> "enter"])]
    /\ UNCHANGED <<handler, client, audit, io, ctx, sock, hs, confVars, reloadVars, routeVars, evalVars, relayVars, dial, handshakeVars, sync>>

\* connectN, n <= 1: the raw TCP dial, to the target (n = 0) or to the first proxy
ConnectNDial ==
    /\ connect.pc = "run" /\ connect.stack # << >>
    /\ Top.pc = "enter" /\ Top.n <= 1
    /\ LET to == IF Top.n = 0 THEN Top.address ELSE connect.chain.proxies[1].address IN
       \E ok \in BOOLEAN :
          /\ CtxDone => ~ok
          /\ io' = [io EXCEPT !.dials = Append(@, [to |-> to, ok |-> ok])]
          /\ sock' = IF ok THEN [state |-> "open", peer |-> to, closedBy |-> ""] ELSE sock
          /\ LET c == IF ~ok THEN FrameReturns(FALSE, <<Arrow("-X->", to, "err")>>, "dial")
                      ELSE IF Top.n = 0 THEN FrameReturns(TRUE, <<Arrow("--->", to, "")>>, "")
                      ELSE [connect EXCEPT !.stack[Len(connect.stack)].pc = "hs",
                                           !.conn = TRUE,
                                           !.repr = <<Arrow("--->", to, "")>>]
             IN  connect' = c /\ ctx' = DeferredCancel(c)
    /\ UNCHANGED <<handler, client, audit, hs, confVars, reloadVars, routeVars, evalVars, relayVars, dial, handshakeVars, sync>>

\* connectN: the goroutine running proxies[n-1].handshake(conn, address) is
\* started; the proxy may answer it or stay silent
HandshakeGo ==
    /\ connect.pc = "run" /\ connect.stack # << >>
    /\ Top.pc = "hs"
    /\ \E mute \in BOOLEAN :
          hs' = Append(hs, [hop |-> Top.n, prot |-> connect.chain.proxies[Top.n].prot,
                            target |-> Top.address, mute |-> mute,
                            st |-> "running", res |-> ""])
    /\ connect' = [connect EXCEPT !.stack[Len(connect.stack)].pc = "select"]
    /\ UNCHANGED <<handler, client, audit, io, ctx, sock, confVars, reloadVars, routeVars, evalVars, relayVars, dial, handshakeVars, sync>>

\* a handshake returns: the proxy answered, or the stream was closed under it
HandshakeEnds(i) ==
    /\ hs[i].st = "running"
    /\ sock.state = "closed" \/ ~hs[i].mute
    /\ \E r \in {"ok", "fail"} :
          /\ sock.state = "closed" => r = "fail"
          /\ hs' = [hs EXCEPT ![i].st = "send", ![i].res = r]
    /\ UNCHANGED <<handler, client, audit, io, ctx, connect, sock, confVars, reloadVars, routeVars, evalVars, relayVars, dial, handshakeVars, sync>>

\* connectN: select receives the handshake's result
SelectResult ==
    /\ connect.pc = "run" /\ connect.stack # << >>
    /\ Top.pc = "select"
    /\ hs[Len(hs)].st = "send"
    /\ hs' = [hs EXCEPT ![Len(hs)].st = "done"]
    /\ LET ok == hs[Len(hs)].res = "ok"
           c  == IF ok
                 THEN FrameReturns(TRUE, Append(connect.repr, Arrow("===>", Top.address, "")), "")
                 ELSE FrameReturns(FALSE, Append(connect.repr, Arrow("=X=>", Top.address, "err")),
                                   "handshake")
       IN  /\ connect' = c
           /\ ctx' = DeferredCancel(c)
           /\ sock' = IF ok THEN sock ELSE Close("connect")
    /\ UNCHANGED <<handler, client, audit, io, confVars, reloadVars, routeVars, evalVars, relayVars, dial, handshakeVars, sync>>

\* connectN: select sees ctx.Done() (the timeout or a cancellation by the parent)
SelectCtxDone ==
    /\ connect.pc = "run" /\ connect.stack # << >>
    /\ Top.pc = "select"
    /\ CtxDone
    /\ LET c == FrameReturns(FALSE, Append(connect.repr, Arrow("=X=>", Top.address, "err")),
                             "timeout")
       IN  connect' = c /\ ctx' = DeferredCancel(c)
    /\ sock' = Close("connect")
    /\ UNCHANGED <<handler, client, audit, io, hs, confVars, reloadVars, routeVars, evalVars, relayVars, dial, handshakeVars, sync>>

\* the tcpReadTimeout deadline of the context created by connect expires
Timeout ==
    /\ ctx.armed /\ ~ctx.expired
    /\ connect.pc = "run"
    /\ ctx' = [ctx EXCEPT !.expired = TRUE]
    /\ UNCHANGED <<handler, client, audit, io, connect, sock, hs, confVars, reloadVars, routeVars, evalVars, relayVars, dial, handshakeVars, sync>>

\* the listener's scope is cancelled (server.stop) while the handler runs
ListenerCancel ==
    /\ handler.pc \notin {"off", "closed"}
    /\ ~ctx.conn
    /\ ctx' = [ctx EXCEPT !.conn = TRUE]
    /\ UNCHANGED <<handler, client, audit, io, connect, sock, hs, confVars, reloadVars, routeVars, evalVars, relayVars, dial, handshakeVars, sync>>

-----------------------------------------------------------------------------
(* The handlers, after connect *)

SuccessReply ==
    IF handler.kind = "socks5" THEN << SocksReply(<<5, 0, 0, 1, 0, 0, 0, 0, 0, 0>>) >>
    ELSE IF handler.kind = "http" THEN << HttpReply(200) >>
    ELSE << >>

\* connect returned: on error the failure is audited and answered; otherwise
\* the connection is audited as open, the success reply is written and relay starts
AfterConnect ==
    /\ handler.pc = "connect" /\ connect.pc = "done"
    /\ IF connect.err # ""
       THEN Return(Failure("connect"), <<"ERROR">>) /\ UNCHANGED sock
       ELSE \E writeOk \in BOOLEAN :
               /\ handler.kind = "fwd" => writeOk
               /\ IF writeOk
                  THEN /\ handler' = [handler EXCEPT !.pc = "relay", !.deferTarget = TRUE,
                                                     !.relayed = TRUE]
                       /\ client' = [client EXCEPT !.got = @ \o SuccessReply]
                       /\ audit' = Append(audit, "OPEN")
                       /\ UNCHANGED <<ctx, sock>>
                  ELSE /\ Return(<< >>, <<"OPEN", "CLOSE">>)
                       /\ sock' = Close("handler")
    /\ UNCHANGED <<io, connect, hs, confVars, reloadVars, routeVars, evalVars, relayVars, dial, handshakeVars, sync>>

\* relay returns: both sockets are closed; then the deferred calls run
RelayEnds ==
    /\ handler.pc = "relay"
    /\ Return(<< >>, <<"CLOSE">>)
    /\ sock' = Close("relay")
    /\ UNCHANGED <<io, connect, hs, confVars, reloadVars, routeVars, evalVars, relayVars, dial, handshakeVars, sync>>

-----------------------------------------------------------------------------
(* SpecConn: one client connection on a listener *)

InitConn ==
    /\ gArgPACPath \in {"", "proxy.pac"}
    /\ \E t \in ConnTables : gRouting \in {[n \in {"t1"} |-> t]}
    /\ \E dns \in BOOLEAN, withDrop \in BOOLEAN : gChains = ChainsTable(dns, withDrop)
    /\ gHosts \in HostsTables
    /\ \E kind \in {"socks5", "http", "fwd"}, want \in {AddrFoo, AddrTen, AddrLan}, c \in {"L", "E"},
          req \in ClientRequests, g \in ClientGreetings, sr \in ClientSocksRequests :
          handler = IF kind = "fwd"
                    THEN [NoHandler EXCEPT !.kind = kind, !.chain = c, !.dest = want,
                                           !.pc = "lookup", !.addr = want, !.chainStr = c]
                    ELSE IF kind = "socks5"
                    THEN [NoHandler EXCEPT !.kind = kind, !.table = "t1", !.want = want,
                                           !.pc = "greeting", !.greeting = g, !.sreq = sr]
                    ELSE [NoHandler EXCEPT !.kind = kind, !.table = "t1", !.want = want,
                                           !.pc = "request", !.req = req]
    /\ client = [closed |-> FALSE, got |-> << >>]
    /\ audit = << >>
    /\ io = NoIo
    /\ ctx = NoCtx
    /\ connect = NoConnect
    /\ sock = NoSock
    /\ hs = << >>
    /\ RouteOff /\ EvalOff /\ ReloadOff /\ RelayOff /\ DialOff /\ HandshakeOff /\ SyncOff

NextConn ==
    \/ Socks5Greeting
    \/ Socks5Request
    \/ HttpRequest
    \/ RoutingDecision
    \/ DropCheck
    \/ ChainLookup
    \/ ConnectHosts
    \/ ConnectDns
    \/ ConnectArm
    \/ ConnectNRecurse
    \/ ConnectNDial
    \/ HandshakeGo
    \/ \E i \in 1..Len(hs) : HandshakeEnds(i)
    \/ SelectResult
    \/ SelectCtxDone
    \/ Timeout
    \/ ListenerCancel
    \/ AfterConnect
    \/ RelayEnds

SpecConn == InitConn /\ [][NextConn]_vars

\* the steps of the program itself; the Go scheduler runs every goroutine
\* that can take a step
ProgramStep ==
    \/ Socks5Greeting \/ Socks5Request \/ HttpRequest \/ RoutingDecision
    \/ DropCheck \/ ChainLookup \/ ConnectHosts \/ ConnectDns \/ ConnectArm
    \/ ConnectNRecurse \/ ConnectNDial \/ HandshakeGo
    \/ SelectResult \/ SelectCtxDone \/ AfterConnect

SpecConnFair == SpecConn /\ WF_vars(ProgramStep)

-----------------------------------------------------------------------------
(* Claims on the handlers and on connect *)

DropDenial == IF handler.kind = "socks5" THEN SocksReply(<<5, 2>>) ELSE HttpReply(403)

\* C3: on a SOCKS5 or HTTP listener, once the resolved route is "drop" the
\* handler never looks a chain up, never resolves a name and never dials,
\* whether or not a chain named "drop" is declared; when it is done the
\* client has received the protocol's denial (SOCKS5 reply 05 02, HTTP 403)
\* as its last reply, the audit log holds exactly one DROPPED line, and the
\* client socket is closed.
C3_DropShortCircuits ==
    (handler.kind \in {"socks5", "http"} /\ handler.chainStr = "drop") =>
        /\ io.lookups = 0 /\ io.dns = << >> /\ io.dials = << >>
        /\ connect = NoConnect /\ sock = NoSock /\ hs = << >>
        /\ handler.pc \in {"dropcheck", "closed"}
        /\ handler.pc = "closed" =>
              /\ client.closed
              /\ audit = << "DROPPED" >>
              /\ client.got # << >> /\ client.got[Len(client.got)] = DropDenial
              /\ ~handler.relayed

\* C3 witness: a SOCKS5 connection was denied while a chain named "drop" is declared
C3_Witness ==
    /\ handler.kind = "socks5" /\ handler.pc = "closed" /\ handler.chainStr = "drop"
    /\ "drop" \in DOMAIN gChains
    /\ audit = << "DROPPED" >>

\* the dials that opened a socket
OpenedDials == {i \in 1..Len(io.dials) : io.dials[i].ok}

\* the chain connect runs on
ChainLen == Len(connect.chain.proxies)

\* C4: handshakes are started in the order 1, 2, ... on the one stream, each
\* with the protocol of its proxy, and handshake i+1 only after handshake i
\* returned success; when connect succeeds on a chain of n >= 1 proxies it
\* has dialled once, to the first proxy, and has done exactly n handshakes,
\* handshake i asking for the address of proxy i+1 and the last one for the
\* target (the address given to connect when no hosts entry or local DNS
\* resolution rewrites it).
C4_OneDialThenHandshakesInOrder ==
    /\ Cardinality(OpenedDials) <= 1
    /\ \A i \in 1..Len(hs) :
          /\ hs[i].hop = i
          /\ hs[i].prot = connect.chain.proxies[i].prot
          /\ i > 1 => (hs[i - 1].st = "done" /\ hs[i - 1].res = "ok")
    /\ (connect.pc = "done" /\ connect.err = "" /\ ChainLen >= 1) =>
          /\ io.dials = << [to |-> connect.chain.proxies[1].address, ok |-> TRUE] >>
          /\ sock.peer = connect.chain.proxies[1].address
          /\ Len(hs) = ChainLen
          /\ \A i \in 1..ChainLen :
                hs[i].target = IF i < ChainLen THEN connect.chain.proxies[i + 1].address
                               ELSE connect.address
          /\ (DOMAIN gHosts = {} /\ connect.chain.proxyDns) => connect.address = handler.addr

\* C4 witness: connect succeeded through the longest chain
C4_Witness ==
    /\ connect.pc = "done" /\ connect.err = ""
    /\ ChainLen = MaxChain /\ Len(hs) = MaxChain
    /\ hs[MaxChain].target = handler.addr

\* C5: when connect has returned an error its stream is nil and no socket it
\* opened is left open; when it has returned without error its stream is
\* non-nil, the socket exists and connect did not close it.
C5_ErrorClosesAllSuccessLeavesOpen ==
    connect.pc = "done" =>
        IF connect.err # ""
        THEN ~connect.conn /\ sock.state # "open"
        ELSE connect.conn /\ sock.state # "none" /\ sock.closedBy \notin {"connect"}
             /\ (handler.pc = "connect" => sock.state = "open")

\* C5 witness: the second hop's handshake failed and connect closed the stream
C5_Witness ==
    /\ connect.pc = "done" /\ connect.err = "handshake"
    /\ Len(hs) = 2 /\ hs[1].res = "ok"
    /\ sock.state = "closed" /\ sock.closedBy = "connect"

\* connect waits on a handshake the proxy never answers, and the deadline has passed
MuteAndExpired ==
    /\ connect.pc = "run" /\ connect.stack # << >> /\ Top.pc = "select"
    /\ hs[Len(hs)].mute /\ hs[Len(hs)].st = "running"
    /\ ctx.expired

TimedOutAndClosed ==
    /\ connect.pc = "done" /\ connect.err = "timeout" /\ ~connect.conn
    /\ sock.state = "closed" /\ sock.closedBy = "connect"
    /\ handler.pc = "closed" /\ client.closed /\ ~handler.relayed

\* C6: the deadline exists only once connect is past the hosts override and
\* the DNS resolution; and when a proxy accepted the connection but stays
\* silent on its handshake, then after the deadline has expired connect
\* returns the timeout error with the stream closed and the handler closes
\* the client without having started relay.
C6_MuteProxyTimesOut ==
    /\ [](ctx.armed => connect.pc \in {"run", "done"})
    /\ [](ctx.expired => ctx.armed)
    /\ (MuteAndExpired ~> TimedOutAndClosed)

\* C6 witness: the handler is done after a timeout on a silent second proxy
\* of a chain that resolved the target's name locally
C6_Witness ==
    /\ TimedOutAndClosed /\ ctx.expired
    /\ Len(hs) = 2 /\ hs[2].mute
    /\ io.dns # << >>

-----------------------------------------------------------------------------
(* Hot reload: the candidate configurations *)

\* servers as built by newServerFromString from their descriptor
Srv(descr, prot, table, chain) ==
    [descrString |-> descr, prot |-> prot, table |-> table, chain |-> chain]

SrvA == Srv("socks5://127.0.0.1:1080:t1", "socks5", "t1", "")
SrvB == Srv("http://127.0.0.1:8080:t1", "http", "t1", "")
SrvC == Srv("fwd://127.0.0.1:2222:c1:foo:22", "fwd", "", "c1")
SrvF == Srv("fwd://127.0.0.1:2223:c9:foo:22", "fwd", "", "c9")
SrvT == Srv("socks5://127.0.0.1:1081:t9", "socks5", "t9", "")
SrvA2 == Srv("socks5://127.0.0.1:1080:t2", "socks5", "t2", "")

\* server.address(): the addr:port a server listens on
BindAddress(descr) ==
    IF descr \in {"socks5://127.0.0.1:1080:t1", "socks5://127.0.0.1:1080:t2"}
    THEN "127.0.0.1:1080"
    ELSE IF descr = "http://127.0.0.1:8080:t1" THEN "127.0.0.1:8080"
    ELSE IF descr = "fwd://127.0.0.1:2222:c1:foo:22" THEN "127.0.0.1:2222"
    ELSE IF descr = "fwd://127.0.0.1:2223:c9:foo:22" THEN "127.0.0.1:2223"
    ELSE IF descr = "socks5://127.0.0.1:1081:t9" THEN "127.0.0.1:1081"
    ELSE ""

\* a proxyChainDesc of the chains section
ChainDesc(dns, proxies) ==
    [ProxyDns |-> dns, TcpConnectTimeout |-> 500, TcpReadTimeout |-> 700, Proxies |-> proxies]

\* a mainConfig, or a file that parseMainConfig rejects
Config(proxies, chains, routes, servers, hosts) ==
    [parseErr |-> FALSE, Proxies |-> proxies, Chains |-> chains, Routes |-> routes,
     Servers |-> servers, Hosts |-> hosts]

OneChain == [c \in {"c1"} |-> ChainDesc(FALSE, <<"p1">>)]
\* a routingTable as its unmarshaller leaves it: the default route and the
\* rule blocks that are not disabled, each with its route
Table(default, routes) ==
    [Default |-> default, Blocks |-> [i \in 1..Len(routes) |-> [Route |-> routes[i]]]]

OneTable == [t \in {"t1"} |-> Table("drop", <<"c1", "drop">>)]
HostsOf(ip) == [x \in {"foo"} |-> ip]

\* the configuration files main may find when a signal arrives
Configs ==
    << Config({"p1"}, OneChain, OneTable, <<SrvA, SrvB>>, HostsOf("10.0.0.1")),
       Config({"p1"}, OneChain, [t \in {"t1"} |-> Table("drop", <<"p1">>)], <<SrvB>>, HostsOf("10.0.0.2")),
       Config({"p1", "p2"}, OneChain, [t \in {"t1"} |-> Table("c9", <<"c1", "drop">>)],
              <<SrvB, SrvC>>, HostsOf("10.0.0.3")),
       [Config({}, << >>, << >>, << >>, << >>) EXCEPT !.parseErr = TRUE],
       Config({"p1"}, [c \in {"p1"} |-> ChainDesc(TRUE, <<"p1">>)], OneTable, <<SrvA>>,
              HostsOf("10.0.0.5")),
       Config({"p1"}, [c \in {"c1"} |-> ChainDesc(TRUE, <<"p1", "p9">>)], OneTable, <<SrvA>>,
              HostsOf("10.0.0.6")),
       Config({"p1"}, OneChain, [t \in {"t1"} |-> Table("drop", <<"drop", "c9">>)], <<SrvA, SrvB>>,
              HostsOf("10.0.0.7")),
       Config({"p1"}, OneChain, OneTable, <<SrvB, SrvT>>, HostsOf("10.0.0.8")),
       Config({"p1"}, OneChain, OneTable, <<SrvB, SrvF>>, HostsOf("10.0.0.9")),
       Config({"p1"}, OneChain, [t \in {"t1", "t2"} |-> Table("drop", <<"c1", "drop">>)], <<SrvA2, SrvB>>,
              HostsOf("10.0.0.10")) >>

ImplicitChainLocalDns(proxyName) ==
    [ProxyDns |-> FALSE, TcpConnectTimeout |-> 1000, TcpReadTimeout |-> 2000,
     Proxies |-> <<proxyName>>]

\* the implicit single proxy chain of a declared proxy
ImplicitChain(proxyName) ==
    [ProxyDns |-> TRUE, TcpConnectTimeout |-> 1000, TcpReadTimeout |-> 2000,
     Proxies |-> <<proxyName>>]

\* a chain is named as a proxy
DuplicateName(config) == \E p \in config.Proxies : p \in DOMAIN config.Chains

\* config.Chains once the implicit chains are added
WithImplicitChains(config) ==
    [c \in DOMAIN config.Chains \cup config.Proxies |->
        IF c \in config.Proxies THEN ImplicitChain(c) ELSE config.Chains[c]]

\* every proxy used in a chain is declared in the proxies section
ProxiesExist(config, chains) ==
    \A c \in DOMAIN chains : \A i \in 1..Len(chains[c].Proxies) :
        chains[c].Proxies[i] \in config.Proxies

\* every route of every rule block is "drop" or a declared chain
RoutesExist(config, chains) ==
    \A t \in DOMAIN config.Routes : \A i \in 1..Len(config.Routes[t].Blocks) :
        \/ config.Routes[t].Blocks[i].Route = "drop"
        \/ config.Routes[t].Blocks[i].Route \in DOMAIN chains

TablesExistUnchecked(config) == TRUE

\* every table used by a server is declared; the table of a forward server is empty
TablesExist(config) ==
    \A i \in 1..Len(config.Servers) :
        config.Servers[i].table \in DOMAIN config.Routes \/ config.Servers[i].table = ""

\* the checks main makes on a candidate before it updates any global
Accepts(config, pacPath, pacOk) ==
    /\ ~config.parseErr
    /\ ~DuplicateName(config)
    /\ ProxiesExist(config, WithImplicitChains(config))
    /\ IF pacPath = ""
       THEN RoutesExist(config, WithImplicitChains(config)) /\ TablesExist(config)
       ELSE pacOk

\* the proxyChain objects built from the chains of an accepted configuration
BuildChains(config) ==
    LET chains == WithImplicitChains(config) IN
    [c \in DOMAIN chains |->
        [proxyDns |-> chains[c].ProxyDns,
         tcpConnectTimeout |-> chains[c].TcpConnectTimeout,
         tcpReadTimeout |-> chains[c].TcpReadTimeout,
         proxies |-> chains[c].Proxies]]

-----------------------------------------------------------------------------
(* Hot reload: the slice gServerConf.servers and its backing arrays *)

\* a server value: newServer leaves ctx and cancel nil (0) and running false;
\* handler is the descriptor the handler object was built from
ServerOf(srv) == [descrString |-> srv.descrString, handler |-> srv.descrString,
                  ctx |-> 0, running |-> FALSE]

\* the zero value of the server type
ZeroServer == [descrString |-> "", handler |-> "", ctx |-> 0, running |-> FALSE]

Cap(h, gs) == IF gs.arr = 0 THEN 0 ELSE Len(h[gs.arr])

\* the descriptors of the servers of a list
Descrs(servers) == {servers[i].descrString : i \in 1..Len(servers)}

\* slices.ContainsFunc(gServerConf.servers, compare ...)
Listed(h, gs, descr) == \E i \in 1..gs.len : h[gs.arr][i].descrString = descr

\* slices.Delete(s, k, k+1): the tail moves down one slot and the slot freed
\* at the end is zeroed
SlicesDelete(arr, len, k) ==
    [i \in 1..Len(arr) |->
        IF i < k THEN arr[i]
        ELSE IF i < len THEN arr[i + 1]
        ELSE IF i = len THEN ZeroServer
        ELSE arr[i]]

\* the loop that stops and deletes the servers absent from the new
\* configuration: i counts the iterations done, j the deletions, st is
\* [h, gs, cancelled]
RECURSIVE StopLoop(_, _, _, _, _)
StopLoop(st, i, j, n, keep) ==
    IF i >= n THEN st
    ELSE LET k == i - j + 1
             s == st.h[st.gs.arr][k]
         IN  IF s.descrString \in keep
             THEN StopLoop(st, i + 1, j, n, keep)
             ELSE StopLoop(
                    [h |-> [st.h EXCEPT ![st.gs.arr] = SlicesDelete(@, st.gs.len, k)],
                     gs |-> [st.gs EXCEPT !.len = @ - 1],
                     cancelled |-> IF s.running THEN st.cancelled \cup {s.ctx}
                                   ELSE st.cancelled],
                    i + 1, j + 1, n, keep)

\* append(gServerConf.servers, s): in place while the capacity allows, else
\* in a new array of twice the capacity
AppendServer(st, s) ==
    IF st.gs.len < Cap(st.h, st.gs)
    THEN [st EXCEPT !.h[st.gs.arr][st.gs.len + 1] = s, !.gs.len = @ + 1]
    ELSE LET newcap == IF Cap(st.h, st.gs) = 0 THEN 1 ELSE 2 * Cap(st.h, st.gs)
             new == [i \in 1..newcap |->
                        IF i <= st.gs.len THEN st.h[st.gs.arr][i]
                        ELSE IF i = st.gs.len + 1 THEN s ELSE ZeroServer]
         IN  [st EXCEPT !.h = Append(@, new),
                        !.gs = [arr |-> Len(st.h) + 1, len |-> st.gs.len + 1]]

\* the loop that appends the servers of the new configuration not yet listed
RECURSIVE AppendLoop(_, _, _)
AppendLoop(st, servers, i) ==
    IF i > Len(servers) THEN st
    ELSE IF Listed(st.h, st.gs, servers[i].descrString)
    THEN AppendLoop(st, servers, i + 1)
    ELSE AppendLoop(AppendServer(st, ServerOf(servers[i])), servers, i + 1)

\* the whole update of gServerConf.servers, made under gServerConf.mu
DiffServersResult(config) ==
    AppendLoop(StopLoop([h |-> heap, gs |-> gServers, cancelled |-> ctxs.cancelled],
                        0, 0, gServers.len, Descrs(config.Servers)),
               config.Servers, 1)

-----------------------------------------------------------------------------
(* SpecReload: main's reload loop, the run() goroutines and the connections *)
(* they accept                                                              *)

otherVars == <<routeVars, evalVars, connVars, relayVars, dial, handshakeVars, sync>>

\* a signal is taken from signalCh and the configuration file is parsed and
\* checked; a rejected candidate sends the loop back to waiting
Signal ==
    /\ ~crashed /\ mainPc = "wait"
    /\ reloads < MaxReloads
    /\ reloads' = reloads + 1
    /\ \E c \in 1..Len(Configs), pacOk \in BOOLEAN :
          /\ gArgPACPath = "" => pacOk
          /\ candidate' = c
          /\ mainPc' = IF Accepts(Configs[c], gArgPACPath, pacOk) THEN "chains" ELSE "wait"
    /\ UNCHANGED <<accepted, startI, gen, heap, gServers, ctxs, runs, conns, crashed,
                   confVars, otherVars>>

\* gChainsConf.proxychains is replaced, under gChainsConf.mu
InstallChains ==
    /\ ~crashed /\ mainPc = "chains"
    /\ gChains' = BuildChains(Configs[candidate])
    /\ gen' = [gen EXCEPT !.chains = candidate]
    /\ mainPc' = "hosts"
    /\ UNCHANGED <<candidate, accepted, startI, reloads, heap, gServers, ctxs, runs, conns,
                   crashed, gArgPACPath, gRouting, gHosts, otherVars>>

\* gHosts is replaced, under no lock
InstallHosts ==
    /\ ~crashed /\ mainPc = "hosts"
    /\ gHosts' = Configs[candidate].Hosts
    /\ gen' = [gen EXCEPT !.hosts = candidate]
    /\ mainPc' = IF gArgPACPath = "" THEN "routes" ELSE "diff"
    /\ UNCHANGED <<candidate, accepted, startI, reloads, heap, gServers, ctxs, runs, conns,
                   crashed, gArgPACPath, gRouting, gChains, otherVars>>

\* gRoutingConf.routing is replaced, under gRoutingConf.mu
InstallRoutes ==
    /\ ~crashed /\ mainPc = "routes"
    /\ gRouting' = Configs[candidate].Routes
    /\ gen' = [gen EXCEPT !.routes = candidate]
    /\ mainPc' = "diff"
    /\ UNCHANGED <<candidate, accepted, startI, reloads, heap, gServers, ctxs, runs, conns,
                   crashed, gArgPACPath, gChains, gHosts, otherVars>>

\* the servers absent from the new configuration are stopped and deleted,
\* the new ones appended; a listener whose descriptor is deleted is no
\* longer one the configuration keeps
DiffServers ==
    /\ ~crashed /\ mainPc = "diff"
    /\ LET r == DiffServersResult(Configs[candidate])
           keep == Descrs(Configs[candidate].Servers)
       IN  /\ heap' = r.h
           /\ gServers' = r.gs
           /\ ctxs' = [ctxs EXCEPT !.cancelled = r.cancelled]
           /\ runs' = {[g EXCEPT !.kept = @ /\ g.descr \in keep] : g \in runs}
           /\ conns' = {[c EXCEPT !.kept = @ /\ c.listener \in keep] : c \in conns}
    /\ startI' = 1
    /\ mainPc' = "start"
    /\ UNCHANGED <<candidate, accepted, reloads, gen, crashed, confVars, otherVars>>

\* time.Sleep(1s) lets the goroutines started or stopped before it settle
Settled == \A g \in runs : g.pc = "select" /\ g.sel \notin ctxs.cancelled

\* one iteration of the loop that starts the servers that are not running:
\* the running flag of servers[i] is read; the loop ends after the last
\* server, and the reload is then complete
StartServers ==
    /\ ~crashed /\ mainPc = "start"
    /\ IF startI > gServers.len
       THEN mainPc' = "wait" /\ startI' = 0 /\ accepted' = candidate
       ELSE /\ UNCHANGED accepted
            /\ IF heap[gServers.arr][startI].running
               THEN mainPc' = "start" /\ startI' = startI + 1
               ELSE mainPc' = "sleep" /\ startI' = startI
    /\ UNCHANGED <<candidate, reloads, gen, heap, gServers, ctxs, runs, conns, crashed,
                   confVars, otherVars>>

\* servers[i] was found not running: after time.Sleep(1s),
\* go gServerConf.servers[i].run(), the receiver being the address of the slot
StartGo ==
    /\ ~crashed /\ mainPc = "sleep"
    /\ Settled
    /\ runs' = runs \cup
          {[ptr |-> <<gServers.arr, startI>>,
            descr |-> heap[gServers.arr][startI].descrString,
            pc |-> "new", ctx0 |-> 0, sel |-> 0, kept |-> TRUE]}
    /\ startI' = startI + 1
    /\ mainPc' = "start"
    /\ UNCHANGED <<candidate, accepted, reloads, gen, heap, gServers, ctxs, conns, crashed,
                   confVars, otherVars>>

\* the server a run() goroutine reaches through its receiver
Deref(g) == heap[g.ptr[1]][g.ptr[2]]

\* run() begins: the new context is stored in *s, running is set, and the
\* goroutine listens on s.address(); net.Listen fails, and the process
\* panics, when the address is already listened on
RunStart(g) ==
    /\ ~crashed /\ g \in runs /\ g.pc = "new"
    /\ LET s == Deref(g)
           id == ctxs.next
       IN  /\ ctxs' = [ctxs EXCEPT !.next = id + 1]
           /\ heap' = [heap EXCEPT ![g.ptr[1]][g.ptr[2]] = [s EXCEPT !.ctx = id, !.running = TRUE]]
           /\ IF \E o \in runs : o.pc = "select"
                                   /\ BindAddress(o.descr) = BindAddress(s.descrString)
              THEN /\ crashed' = TRUE
                   /\ runs' = (runs \ {g}) \cup
                        {[g EXCEPT !.pc = "listenError", !.descr = s.descrString]}
              ELSE /\ runs' = (runs \ {g}) \cup
                        {[g EXCEPT !.pc = "select", !.descr = s.descrString,
                                   !.ctx0 = id, !.sel = id]}
                   /\ UNCHANGED crashed
    /\ UNCHANGED <<mainPc, candidate, accepted, startI, reloads, gen, gServers, conns,
                   confVars, otherVars>>

\* a client connects: the accept goroutine derives the connection's context
\* from s.ctx and hands the connection to s.handler, both read through the
\* receiver; a nil s.ctx panics; run() then waits again, on s.ctx.Done()
Accept(g) ==
    /\ ~crashed /\ g \in runs /\ g.pc = "select"
    /\ g.sel \notin ctxs.cancelled
    /\ Cardinality(conns) < MaxConns
    /\ LET s == Deref(g) IN
       IF s.ctx = 0
       THEN crashed' = TRUE /\ UNCHANGED <<runs, conns>>
       ELSE /\ conns' = conns \cup
                  {[listener |-> g.descr, own |-> g.ctx0, handler |-> s.handler,
                    parent |-> s.ctx, pc |-> "reading", kept |-> g.kept, closed |-> FALSE,
                    deferred |-> TRUE]}
            /\ runs' = (runs \ {g}) \cup {[g EXCEPT !.sel = s.ctx]}
            /\ UNCHANGED crashed
    /\ UNCHANGED <<mainPc, candidate, accepted, startI, reloads, gen, heap, gServers, ctxs,
                   confVars, otherVars>>

\* l.Accept() returns an error while the listener is open (no descriptor
\* left, a connection aborted in the backlog): the accept goroutine logs it
\* and closes acceptDone with c still nil; run() takes the acceptDone case
\* and executes defer c.Close(), which evaluates the method value of a nil
\* net.Conn: a nil dereference that nothing recovers; every other goroutine
\* and every socket ends with the process
AcceptFails(g) ==
    /\ ~crashed /\ g \in runs /\ g.pc = "select"
    /\ g.sel \notin ctxs.cancelled
    /\ runs' = {[g EXCEPT !.pc = "acceptError"]}
    /\ conns' = {}
    /\ crashed' = TRUE
    /\ UNCHANGED <<mainPc, candidate, accepted, startI, reloads, gen, heap, gServers, ctxs,
                   confVars, otherVars>>

\* a client connects while the context run() waits on is already cancelled:
\* the accept goroutine starts the handler as usual, but run()'s select has
\* both cases ready; when it takes ctx.Done() the defer c.Close() of the
\* acceptDone case is never registered for this connection
AcceptDuringStop(g) ==
    /\ ~crashed /\ g \in runs /\ g.pc = "select"
    /\ g.sel \in ctxs.cancelled
    /\ Cardinality(conns) < MaxConns
    /\ LET s == Deref(g) IN
       IF s.ctx = 0
       THEN crashed' = TRUE /\ UNCHANGED <<runs, conns>>
       ELSE \E deferred \in BOOLEAN :
            /\ conns' = conns \cup
                  {[listener |-> g.descr, own |-> g.ctx0, handler |-> s.handler,
                    parent |-> s.ctx, pc |-> "reading", kept |-> g.kept, closed |-> FALSE,
                    deferred |-> deferred]}
            /\ runs' = IF deferred THEN (runs \ {g}) \cup {[g EXCEPT !.sel = s.ctx]} ELSE runs
            /\ UNCHANGED crashed
    /\ UNCHANGED <<mainPc, candidate, accepted, startI, reloads, gen, heap, gServers, ctxs,
                   confVars, otherVars>>

\* the context run() waits on is cancelled: run() returns, its deferred calls
\* cancel its own context, close the listener and close the connections it
\* accepted
RunReturns(g) ==
    /\ ~crashed /\ g \in runs /\ g.pc = "select"
    /\ g.sel \in ctxs.cancelled
    /\ runs' = runs \ {g}
    /\ ctxs' = [ctxs EXCEPT !.cancelled = @ \cup {g.ctx0}]
    /\ conns' = {[c EXCEPT !.closed = @ \/ (c.own = g.ctx0 /\ c.deferred)] : c \in conns}
    /\ UNCHANGED <<mainPc, candidate, accepted, startI, reloads, gen, heap, gServers, crashed,
                   confVars, otherVars>>

\* a handler reads the tables it needs (routes, chains, hosts) and goes on to relay
HandlerReads(c) ==
    /\ ~crashed /\ c \in conns /\ c.pc = "reading"
    /\ conns' = (conns \ {c}) \cup {[c EXCEPT !.pc = "relay"]}
    /\ UNCHANGED <<mainPc, candidate, accepted, startI, reloads, gen, heap, gServers, ctxs,
                   runs, crashed, confVars, otherVars>>

\* connHandle returns because the client or the target ended the connection
HandlerReturns(c) ==
    /\ ~crashed /\ c \in conns /\ ~c.closed
    /\ conns' = conns \ {c}
    /\ UNCHANGED <<mainPc, candidate, accepted, startI, reloads, gen, heap, gServers, ctxs,
                   runs, crashed, confVars, otherVars>>

\* the client socket was closed under the handler by run(): its blocked read
\* or its relay fails and connHandle returns
HandlerUnblocked(c) ==
    /\ ~crashed /\ c \in conns /\ c.closed
    /\ conns' = conns \ {c}
    /\ UNCHANGED <<mainPc, candidate, accepted, startI, reloads, gen, heap, gServers, ctxs,
                   runs, crashed, confVars, otherVars>>

InitReload ==
    /\ gArgPACPath \in {"", "proxy.pac"}
    /\ gRouting = << >>
    /\ gChains = << >>
    /\ gHosts = << >>
    /\ ReloadOff
    /\ RouteOff /\ EvalOff /\ ConnOff /\ RelayOff /\ DialOff /\ HandshakeOff /\ SyncOff

NextReload ==
    \/ Signal
    \/ InstallChains
    \/ InstallHosts
    \/ InstallRoutes
    \/ DiffServers
    \/ StartServers
    \/ StartGo
    \/ \E g \in runs : RunStart(g)
    \/ \E g \in runs : Accept(g)
    \/ \E g \in runs : AcceptDuringStop(g)
    \/ \E g \in runs : AcceptFails(g)
    \/ \E g \in runs : RunReturns(g)
    \/ \E c \in conns : HandlerReads(c)
    \/ \E c \in conns : HandlerReturns(c)
    \/ \E c \in conns : HandlerUnblocked(c)

SpecReload == InitReload /\ [][NextReload]_vars

\* the steps of main's loop
MainStep ==
    InstallChains \/ InstallHosts \/ InstallRoutes \/ DiffServers \/ StartServers \/ StartGo

\* the scheduler runs main, every run() goroutine that can start or return,
\* and every handler whose socket was closed; clients are under no obligation
SpecReloadFair ==
    /\ SpecReload
    /\ WF_vars(MainStep)
    /\ WF_vars(\E g \in runs : RunStart(g))
    /\ WF_vars(\E g \in runs : RunReturns(g))
    /\ WF_vars(\E c \in conns : HandlerUnblocked(c))

-----------------------------------------------------------------------------
(* Claims on hot reload *)

\* the run() goroutines whose accept loop is live: started, or about to
\* start, and not told to stop; none once the process has died
LiveLoops == IF crashed THEN {} ELSE {g \in runs : g.pc = "new" \/ g.sel \notin ctxs.cancelled}

\* C7: once an accepted reload has completed, the descriptors of the
\* listeners with a live accept loop are exactly the descriptors of the
\* servers of the new configuration, each with one accept loop.
C7_LiveLoopsAreTheConfiguredServers ==
    (mainPc = "wait" /\ accepted # 0) =>
        /\ {g.descr : g \in LiveLoops} = Descrs(Configs[accepted].Servers)
        /\ \A g1, g2 \in LiveLoops : g1.descr = g2.descr => g1 = g2

\* C7 witness: the reload that removed the first listener has completed, the
\* kept listener's goroutine is left with a zeroed server, and the process
\* died on the next connection to the kept listener
C7_Witness ==
    /\ mainPc = "wait" /\ accepted = 2 /\ reloads = 2
    /\ crashed
    /\ \E g \in runs : g.kept /\ g.pc = "select" /\ g.sel = g.ctx0 /\ Deref(g) = ZeroServer

\* C8: a listener that every reload since its start has kept goes on
\* accepting, waits on its own cancel scope, which is not cancelled, and
\* every connection it accepted was handed to its own handler under a scope
\* derived from its own, and has not been closed under the handler.
C8_KeptListenerUnaffected ==
    /\ \A g \in runs : (g.kept /\ g.pc = "select") =>
          /\ ~crashed
          /\ g.sel = g.ctx0
          /\ g.ctx0 \notin ctxs.cancelled
    /\ \A c \in conns : c.kept =>
          /\ ~crashed /\ ~c.closed
          /\ c.handler = c.listener
          /\ c.parent = c.own
          /\ c.parent \notin ctxs.cancelled

\* C8 witness: a connection accepted by a kept listener is in the hands of
\* the handler of another listener, under that other listener's scope
C8_Witness ==
    \E c \in conns :
        /\ c.kept /\ c.handler # c.listener /\ c.parent # c.own
        /\ \E g \in runs : g.kept /\ g.ctx0 = c.own /\ g.sel = c.parent

\* every chain named by a forward server of the configuration exists
FwdChainsExist(config, chains) ==
    \A i \in 1..Len(config.Servers) :
        config.Servers[i].prot = "fwd" => config.Servers[i].chain \in DOMAIN chains

\* the candidate fails to parse or fails one of the validation checks
FailsValidation(config) ==
    \/ config.parseErr
    \/ DuplicateName(config)
    \/ ~ProxiesExist(config, WithImplicitChains(config))
    \/ ~RoutesExist(config, WithImplicitChains(config))
    \/ ~TablesExist(config)
    \/ ~FwdChainsExist(config, WithImplicitChains(config))

\* C9: a candidate that fails to parse or fails a validation check leaves
\* the reload loop waiting, and no table and no listener set is ever taken
\* from it.
C9_RejectedCandidateChangesNothing ==
    (candidate # 0 /\ FailsValidation(Configs[candidate])) =>
        /\ mainPc = "wait"
        /\ gen.chains # candidate /\ gen.hosts # candidate /\ gen.routes # candidate
        /\ accepted # candidate

\* C9 witness: the servers of a configuration whose forward server names an
\* undeclared chain are about to be installed, its tables already are
C9_Witness ==
    /\ mainPc = "diff" /\ gArgPACPath = ""
    /\ ~FwdChainsExist(Configs[candidate], WithImplicitChains(Configs[candidate]))
    /\ gen.chains = candidate /\ gen.routes = candidate

\* C10: whenever a connection handler is about to read the tables, the
\* chains, hosts and routes tables come from the same configuration (the
\* routes table is not used, and not replaced, when a PAC script routes).
C10_TablesSwappedAtomically ==
    \A c \in conns : c.pc = "reading" =>
        /\ gen.chains = gen.hosts
        /\ gArgPACPath = "" => gen.routes = gen.chains

\* C10 witness: a handler is about to read the tables while the chains table
\* is the new one and the hosts and routes tables are still the old ones
C10_Witness ==
    /\ gArgPACPath = ""
    /\ \E c \in conns : c.pc = "reading"
    /\ gen.chains # gen.hosts /\ gen.hosts = gen.routes /\ gen.hosts # 0

\* the connections accepted by a listener whose scope is cancelled
StoppedConns == {c \in conns : c.own \in ctxs.cancelled}

\* C11: once the scope of a listener is cancelled by stop(), every
\* connection that listener accepted is eventually closed and its handler
\* gone.
C11_StopEndsEveryConnection == (StoppedConns # {}) ~> (StoppedConns = {})

\* C11 witness: run() has returned and a connection it accepted while its
\* scope was being cancelled is open, with no deferred close left to run
C11_Witness ==
    \E c \in conns :
        /\ c.own \in ctxs.cancelled /\ ~c.closed /\ ~c.deferred
        /\ \A g \in runs : g.ctx0 # c.own

\* main is applying again the configuration of the last completed reload
SameConfigAgain ==
    /\ accepted # 0 /\ candidate = accepted
    /\ mainPc \in {"diff", "start", "sleep"}

\* C12: while main applies again the configuration it applied last, its
\* steps start no run() goroutine, cancel no scope, leave the listener set
\* as it is and close no connection.
C12_SameConfigTwiceIsIdempotent ==
    [][(SameConfigAgain /\ (mainPc' # mainPc \/ startI' # startI)) =>
          /\ runs' = runs
          /\ ctxs' = ctxs
          /\ gServers' = gServers /\ heap' = heap
          /\ conns' = conns]_vars

\* C12 witness: after the same configuration was applied twice, two run()
\* goroutines exist for one and the same server
C12_Witness ==
    /\ reloads = 2 /\ accepted # 0 /\ candidate = accepted
    /\ \E g1, g2 \in runs : g1 # g2 /\ g1.ptr = g2.ptr

-----------------------------------------------------------------------------
(* Claims on the replies of the handlers *)

MethodSelection == SocksReply(<<5, 0>>)
Socks5Success == SocksReply(<<5, 0, 0, 1, 0, 0, 0, 0, 0, 0>>)
Socks5GeneralFailure == SocksReply(<<5, 1>>)

\* the handler returns in this step after a failure of the route lookup, of
\* the chain lookup or of connect
UpstreamFailureStep ==
    /\ handler'.pc = "closed"
    /\ \/ handler.pc = "route"
       \/ handler.pc = "lookup"
       \/ handler.pc = "connect" /\ connect.pc = "done" /\ connect.err # ""

\* C13: on a SOCKS5 listener the success reply (REP 0x00) is in what the
\* client got only once connect has returned an established stream, relay
\* has started only if that reply was written, the client gets at most one
\* request reply after the method-selection reply, and a failure of the
\* route lookup, of the chain lookup or of connect writes REP 0x01 and never
\* starts relay.
C13_Socks5ReplyOrdering ==
    /\ [](handler.kind = "socks5" =>
            /\ Len(client.got) <= 2
            /\ client.got # << >> => client.got[1] = MethodSelection
            /\ Len(client.got) = 2 => client.got[2] # MethodSelection
            /\ (\E i \in 1..Len(client.got) : client.got[i] = Socks5Success) =>
                  /\ connect.pc = "done" /\ connect.err = "" /\ connect.conn
                  /\ sock.state # "none"
            /\ handler.relayed =>
                  (Len(client.got) = 2 /\ client.got[2] = Socks5Success))
    /\ [][(handler.kind = "socks5" /\ UpstreamFailureStep) =>
            /\ client'.got = Append(client.got, Socks5GeneralFailure)
            /\ ~handler'.relayed]_vars

\* C13 witness: a SOCKS5 connection whose connect failed was answered REP 0x01
C13_Witness ==
    /\ handler.kind = "socks5" /\ handler.pc = "closed"
    /\ connect.pc = "done" /\ connect.err # ""
    /\ client.got = << MethodSelection, Socks5GeneralFailure >>
    /\ ~handler.relayed

\* the route lookup of the listener's table fails (JSON routing)
JsonRouteFails ==
    \/ handler.table \notin DOMAIN gRouting
    \/ GetRoute(gRouting[handler.table], handler.addr).err

-----------------------------------------------------------------------------
(* SpecRelay: the byte streams of one connection, from the request of the *)
(* client to the return of relay                                          *)

\* the request of the client, and the reply of the last proxy to the
\* handshake, are one message written 0; the bytes a peer sends after it are
\* 1, 2, ...
Message == 0
Payload == [i \in 1..MaxPayload |-> i]

\* io.Copy(dst, src) of each direction
Src(d) == IF d = "up" THEN "client" ELSE "target"
Dst(d) == IF d = "up" THEN "target" ELSE "client"

\* the remote peer of Src(d) writes some of its bytes: they are on the wire
PeerSends(d) ==
    /\ rpc \in (IF d = "up" THEN {"request"} ELSE {}) \cup {"handshake", "relay"}
    /\ ~flow[d].eof /\ Src(d) \notin closedConns
    /\ \E k \in 1..Len(flow[d].toSend) :
          flow' = [flow EXCEPT ![d].toSend = SubSeq(@, k + 1, Len(@)),
                               ![d].wire = @ \o SubSeq(flow[d].toSend, 1, k)]
    /\ UNCHANGED <<rpc, closedConns, wg, routeVars, evalVars, confVars, connVars, reloadVars, dial, handshakeVars, sync>>

\* the remote peer of Src(d) closes its side
PeerCloses(d) ==
    /\ rpc \in (IF d = "up" THEN {"request"} ELSE {}) \cup {"handshake", "relay"}
    /\ ~flow[d].eof
    /\ flow' = [flow EXCEPT ![d].eof = TRUE]
    /\ UNCHANGED <<rpc, closedConns, wg, routeVars, evalVars, confVars, connVars, reloadVars, dial, handshakeVars, sync>>

\* the socket the handler (request) or the handshake of the last proxy
\* (handshake) reads through its own bufio.Reader
Reading(d) == (d = "up" /\ rpc = "request") \/ (d = "down" /\ rpc = "handshake")

\* bufio.Reader: its buffer being empty, one Read of the socket takes what
\* is there, however much the caller asked for
ReaderFill(d) ==
    /\ Reading(d)
    /\ flow[d].buffered = << >>
    /\ \E k \in 1..Len(flow[d].wire) :
          flow' = [flow EXCEPT ![d].buffered = SubSeq(flow[d].wire, 1, k),
                               ![d].wire = SubSeq(@, k + 1, Len(@))]
    /\ UNCHANGED <<rpc, closedConns, wg, routeVars, evalVars, confVars, connVars, reloadVars, dial, handshakeVars, sync>>

\* the read of the request or of the handshake reply fails: the handler
\* returns without relay, what it had opened is closed
ReadFails(d) ==
    /\ Reading(d)
    /\ flow[d].buffered = << >> /\ flow[d].wire = << >> /\ flow[d].eof
    /\ rpc' = "failed"
    /\ closedConns' = IF d = "up" THEN {"client"} ELSE {"client", "target"}
    /\ UNCHANGED <<flow, wg, routeVars, evalVars, confVars, connVars, reloadVars, dial, handshakeVars, sync>>

\* relay(client, target) is entered: wg.Add(1) twice, two goroutines
RelayStarts(f) == [d \in {"up", "down"} |-> [f[d] EXCEPT !.st = "copying"]]

\* the handler has read the whole request from its reader; it connects
\* through a chain of no proxy (relay follows) or of some (the handshake of
\* the last one follows)
HandlerParses ==
    /\ rpc = "request"
    /\ flow["up"].buffered # << >> /\ Head(flow["up"].buffered) = Message
    /\ \E proxies \in 0..1 :
          LET f == [flow EXCEPT !["up"].buffered = Tail(@),
                                !["down"].toSend = IF proxies = 0 THEN Payload
                                                   ELSE <<Message>> \o Payload]
          IN  IF proxies = 0
              THEN rpc' = "relay" /\ wg' = 2 /\ flow' = RelayStarts(f)
              ELSE rpc' = "handshake" /\ wg' = wg /\ flow' = f
    /\ UNCHANGED <<closedConns, routeVars, evalVars, confVars, connVars, reloadVars, dial, handshakeVars, sync>>

\* the handshake has read the whole reply of the proxy from its reader and
\* returns; connect returns the stream, the success reply is written, relay
\* follows
HandshakeParses ==
    /\ rpc = "handshake"
    /\ flow["down"].buffered # << >> /\ Head(flow["down"].buffered) = Message
    /\ rpc' = "relay" /\ wg' = 2
    /\ flow' = RelayStarts([flow EXCEPT !["down"].buffered = Tail(@)])
    /\ UNCHANGED <<closedConns, routeVars, evalVars, confVars, connVars, reloadVars, dial, handshakeVars, sync>>

\* one round of io.Copy(Dst(d), Src(d)): what a Read of the socket Src(d)
\* returns is written to Dst(d); a failed Write ends the copy
Copy(d) ==
    /\ rpc = "relay" /\ flow[d].st = "copying"
    /\ Src(d) \notin closedConns
    /\ \E k \in 1..Len(flow[d].wire), writeOk \in BOOLEAN :
          IF writeOk /\ Dst(d) \notin closedConns
          THEN flow' = [flow EXCEPT ![d].wire = SubSeq(@, k + 1, Len(@)),
                                    ![d].delivered = @ \o SubSeq(flow[d].wire, 1, k)]
          ELSE flow' = [flow EXCEPT ![d].wire = SubSeq(@, k + 1, Len(@)),
                                    ![d].st = "deferTarget", ![d].why = "write"]
    /\ UNCHANGED <<rpc, closedConns, wg, routeVars, evalVars, confVars, connVars, reloadVars, dial, handshakeVars, sync>>

\* io.Copy returns because its Read fails: the socket was closed by the
\* program, or the peer closed and nothing is left to read
CopyReturns(d) ==
    /\ rpc = "relay" /\ flow[d].st = "copying"
    /\ \/ Src(d) \in closedConns
       \/ flow[d].eof /\ flow[d].wire = << >>
    /\ flow' = [flow EXCEPT ![d].st = "deferTarget",
                            ![d].why = IF Src(d) \in closedConns THEN "closed" ELSE "eof"]
    /\ UNCHANGED <<rpc, closedConns, wg, routeVars, evalVars, confVars, connVars, reloadVars, dial, handshakeVars, sync>>

\* the deferred calls of a copy goroutine, last registered first:
\* target.Close(), client.Close(), wg.Done()
DeferTargetClose(d) ==
    /\ flow[d].st = "deferTarget"
    /\ closedConns' = closedConns \cup {"target"}
    /\ flow' = [flow EXCEPT ![d].st = "deferClient"]
    /\ UNCHANGED <<rpc, wg, routeVars, evalVars, confVars, connVars, reloadVars, dial, handshakeVars, sync>>

DeferClientClose(d) ==
    /\ flow[d].st = "deferClient"
    /\ closedConns' = closedConns \cup {"client"}
    /\ flow' = [flow EXCEPT ![d].st = "deferDone"]
    /\ UNCHANGED <<rpc, wg, routeVars, evalVars, confVars, connVars, reloadVars, dial, handshakeVars, sync>>

WgDone(d) ==
    /\ flow[d].st = "deferDone"
    /\ wg' = wg - 1
    /\ flow' = [flow EXCEPT ![d].st = "done"]
    /\ UNCHANGED <<rpc, closedConns, routeVars, evalVars, confVars, connVars, reloadVars, dial, handshakeVars, sync>>

WgWaitReturnsEarly == wg <= 1

\* wg.Wait() returns when the counter is zero
WgWait == wg = 0

\* relay returns
RelayReturns ==
    /\ rpc = "relay"
    /\ WgWait
    /\ rpc' = "returned"
    /\ UNCHANGED <<flow, closedConns, wg, routeVars, evalVars, confVars, connVars, reloadVars, dial, handshakeVars, sync>>

InitRelay ==
    /\ rpc = "request"
    /\ flow = [d \in {"up", "down"} |->
                 IF d = "up" THEN [NoFlow EXCEPT !.toSend = <<Message>> \o Payload] ELSE NoFlow]
    /\ closedConns = {}
    /\ wg = 0
    /\ RouteOff /\ EvalOff /\ ConfOff /\ ConnOff /\ ReloadOff /\ DialOff /\ HandshakeOff /\ SyncOff

\* the steps of one copy goroutine
CopyGoroutine(d) ==
    Copy(d) \/ CopyReturns(d) \/ DeferTargetClose(d) \/ DeferClientClose(d) \/ WgDone(d)

NextRelay ==
    \/ \E d \in {"up", "down"} : PeerSends(d)
    \/ \E d \in {"up", "down"} : PeerCloses(d)
    \/ \E d \in {"up", "down"} : ReaderFill(d)
    \/ \E d \in {"up", "down"} : ReadFails(d)
    \/ HandlerParses
    \/ HandshakeParses
    \/ \E d \in {"up", "down"} : Copy(d)
    \/ \E d \in {"up", "down"} : CopyReturns(d)
    \/ \E d \in {"up", "down"} : DeferTargetClose(d)
    \/ \E d \in {"up", "down"} : DeferClientClose(d)
    \/ \E d \in {"up", "down"} : WgDone(d)
    \/ RelayReturns

SpecRelay == InitRelay /\ [][NextRelay]_vars

\* the Go scheduler runs each copy goroutine and relay itself whenever they
\* can take a step; the peers are free to stay silent
SpecRelayFair ==
    /\ SpecRelay
    /\ \A d \in {"up", "down"} : WF_vars(CopyGoroutine(d))
    /\ WF_vars(RelayReturns)

-----------------------------------------------------------------------------
(* Claims on relay *)

\* C15: relay has returned only if both copy goroutines are done and both
\* sockets are closed; a copy goroutine is done only once both sockets are
\* closed; and once the copy of one direction has ended relay eventually
\* returns, the other direction being ended by the closed sockets.
C15_RelayWaitsBothAndClosesBoth ==
    /\ [](rpc = "returned" =>
            /\ \A d \in {"up", "down"} : flow[d].st = "done"
            /\ closedConns = {"client", "target"})
    /\ [](\A d \in {"up", "down"} :
            flow[d].st = "done" => closedConns = {"client", "target"})
    /\ ((rpc = "relay" /\ \E d \in {"up", "down"} : flow[d].st # "copying")
            ~> (rpc = "returned"))

\* C15 witness: relay returned after the client closed; the copy from the
\* target was ended by the closed sockets
C15_Witness ==
    /\ rpc = "returned"
    /\ flow["up"].why = "eof" /\ flow["down"].why = "closed"
    /\ ~flow["down"].eof

\* the bytes of direction d that are neither delivered nor still to come
FlowConserved(d) ==
    flow[d].delivered \o flow[d].wire \o flow[d].toSend = Payload

\* C16: in each direction what relay has delivered is a prefix of what the
\* peer sends after its request (its handshake reply), and while the copy
\* of that direction runs every such byte is delivered, on the wire or not
\* yet sent: none is lost, duplicated or reordered, whatever reads the
\* bytes arrived in.
C16_RelayedVerbatim ==
    \A d \in {"up", "down"} :
        /\ Len(flow[d].delivered) <= MaxPayload
        /\ flow[d].delivered = SubSeq(Payload, 1, Len(flow[d].delivered))
        /\ (rpc = "relay" /\ flow[d].st = "copying") => FlowConserved(d)

\* C16 witness: the first byte the client sent after its request came in
\* the read that ended the request; it stays in the handler's reader while
\* the target is given the second one
C16_Witness ==
    /\ rpc = "relay"
    /\ flow["up"].buffered = <<1>>
    /\ flow["up"].delivered = <<2>>

-----------------------------------------------------------------------------
(* Claims on the address connect works on *)

\* the addresses handed to the last hop: the targets of the handshakes of
\* the last proxy, or the direct dials of a chain of no proxy
HandedToLastHop ==
    IF connect.pc = "idle" THEN {}
    ELSE IF ChainLen = 0 THEN {io.dials[i].to : i \in 1..Len(io.dials)}
    ELSE {hs[i].target : i \in {j \in 1..Len(hs) : hs[j].hop = ChainLen}}

\* the address asked for, its host replaced once by its hosts entry if any
AfterHosts ==
    LET sp == SplitHostPort(handler.addr) IN
    IF DOMAIN gHosts # {} /\ ~sp.err /\ sp.host \in DOMAIN gHosts
    THEN gHosts[sp.host] \o <<Sym(":")>> \o sp.port
    ELSE handler.addr

HostOf(address) == SplitHostPort(address).host

\* C17: connect replaces the host of the address by its hosts entry once,
\* the port kept and the replacement not looked up again, before any local
\* resolution and whatever proxyDns is; the name resolved locally is the
\* host of the replaced address, and the last hop is handed the replaced
\* address (its host resolved, when it was resolved locally).
C17_HostsOverrideOnceBeforeDns ==
    connect.pc # "idle" =>
        /\ connect.pc = "hosts" => (connect.address = handler.addr /\ io.dns = << >>)
        /\ connect.pc = "dns" => (connect.address = AfterHosts /\ io.dns = << >>)
        /\ Len(io.dns) <= 1
        /\ \A i \in 1..Len(io.dns) :
              /\ io.dns[i] = HostOf(AfterHosts)
              /\ ~connect.chain.proxyDns /\ ParseIP(io.dns[i]).kind = "nil"
        /\ \A a \in HandedToLastHop :
              IF io.dns = << >> THEN a = AfterHosts
              ELSE a = DnsFirstIP \o <<Sym(":")>> \o SplitHostPort(AfterHosts).port

\* C17 witness: foo:80 was asked for with the hosts foo -> 10.1.2.3 and
\* 10.1.2.3 -> bar; the last proxy was asked for 10.1.2.3:80
C17_Witness ==
    /\ DOMAIN gHosts # {} /\ handler.addr = AddrFoo
    /\ connect.pc = "done" /\ connect.err = ""
    /\ connect.chain.proxyDns /\ ChainLen >= 1
    /\ HandedToLastHop = {AddrTen}

\* C18: with proxyDns=false connectN is entered, and the last hop is
\* handed, an address whose host is an IP literal, a host that is none
\* having been resolved locally; when the resolution fails or is empty
\* connect fails with nothing dialled and no stream; with proxyDns=true
\* nothing is resolved locally and the last hop is handed the address as it
\* was after the hosts step.
C18_ProxyDnsFalseHandsIPLiteral ==
    connect.pc # "idle" =>
        IF connect.chain.proxyDns
        THEN /\ io.dns = << >>
             /\ \A a \in HandedToLastHop : a = AfterHosts
        ELSE /\ \A a \in HandedToLastHop : ParseIP(HostOf(a)).kind # "nil"
             /\ connect.pc \in {"arm", "run"} => ParseIP(HostOf(connect.address)).kind # "nil"
             /\ (connect.pc \in {"arm", "run"} /\ ParseIP(HostOf(AfterHosts)).kind = "nil") =>
                   io.dns = << HostOf(AfterHosts) >>
             /\ (connect.pc = "done" /\ connect.err = "dns") =>
                   (io.dials = << >> /\ sock = NoSock /\ hs = << >> /\ ~connect.conn)

\* C18 witness: with proxyDns=false and no hosts entry, foo was resolved
\* locally and the last hop was handed the first address returned
C18_Witness ==
    /\ connect.pc = "done" /\ connect.err = ""
    /\ ~connect.chain.proxyDns /\ DOMAIN gHosts = {}
    /\ handler.addr = AddrFoo /\ io.dns = << <<Lab("foo")>> >>
    /\ HandedToLastHop = {DnsFirstIP \o <<Sym(":"), Num(80)>>}

-----------------------------------------------------------------------------
(* SpecDial: the time one connect call takes. Time is counted in seconds  *)
(* from the creation of the timeout context of connect.                   *)

\* the proxyChain of the call: its two timeouts, and whether it has proxies
TimedChains ==
    {[tcpConnectTimeout |-> c, tcpReadTimeout |-> r, proxies |-> n] :
        c \in 1..MaxTimeout, r \in 1..MaxTimeout, n \in 0..1}

\* ctx.Done() of the context made by context.WithTimeout(ctx, tcpReadTimeout):
\* its deadline is reached, or the scope of the listener is cancelled
TimedCtxDone == dial.cancelled \/ dial.now >= dial.chain.tcpReadTimeout

\* connectN calls d.DialContext(ctx, "tcp", ...)
DialContext ==
    /\ dial.pc = "armed"
    /\ dial' = [dial EXCEPT !.pc = "dialing", !.dialAt = dial.now]
    /\ UNCHANGED <<routeVars, evalVars, confVars, connVars, reloadVars, relayVars, handshakeVars, sync>>

\* one second passes; the program reacts to a context that is done before
\* more time passes
Tick ==
    /\ dial.pc \in {"armed", "dialing", "handshake"}
    /\ dial.now <= MaxTimeout
    /\ ~(dial.pc \in {"dialing", "handshake"} /\ TimedCtxDone)
    /\ dial' = [dial EXCEPT !.now = @ + 1]
    /\ UNCHANGED <<routeVars, evalVars, confVars, connVars, reloadVars, relayVars, handshakeVars, sync>>

\* the scope of the listener is cancelled
TimedCancel ==
    /\ dial.pc \in {"armed", "dialing", "handshake"}
    /\ ~dial.cancelled
    /\ dial' = [dial EXCEPT !.cancelled = TRUE]
    /\ UNCHANGED <<routeVars, evalVars, confVars, connVars, reloadVars, relayVars, handshakeVars, sync>>

\* the dial completes: the peer accepted the connection, or refused it
DialCompletes ==
    /\ dial.pc = "dialing" /\ ~TimedCtxDone
    /\ \E ok \in BOOLEAN :
          dial' = IF ~ok THEN [dial EXCEPT !.pc = "done", !.err = "dial", !.by = "peer"]
                  ELSE IF dial.chain.proxies = 0 THEN [dial EXCEPT !.pc = "done"]
                  ELSE [dial EXCEPT !.pc = "handshake"]
    /\ UNCHANGED <<routeVars, evalVars, confVars, connVars, reloadVars, relayVars, handshakeVars, sync>>

\* DialContext gives up because its context is done
DialAborted ==
    /\ dial.pc = "dialing" /\ TimedCtxDone
    /\ dial' = [dial EXCEPT !.pc = "done", !.err = "dial", !.by = "ctx"]
    /\ UNCHANGED <<routeVars, evalVars, confVars, connVars, reloadVars, relayVars, handshakeVars, sync>>

\* the select of connectN takes the result of the handshake
TimedHandshakeResult ==
    /\ dial.pc = "handshake"
    /\ \E ok \in BOOLEAN :
          dial' = [dial EXCEPT !.pc = "done", !.err = IF ok THEN "" ELSE "handshake",
                               !.by = IF ok THEN "" ELSE "peer"]
    /\ UNCHANGED <<routeVars, evalVars, confVars, connVars, reloadVars, relayVars, handshakeVars, sync>>

\* the select of connectN takes ctx.Done()
TimedHandshakeCtxDone ==
    /\ dial.pc = "handshake" /\ TimedCtxDone
    /\ dial' = [dial EXCEPT !.pc = "done", !.err = "timeout", !.by = "ctx"]
    /\ UNCHANGED <<routeVars, evalVars, confVars, connVars, reloadVars, relayVars, handshakeVars, sync>>

InitDial ==
    /\ \E ch \in TimedChains : dial = [NoDial EXCEPT !.pc = "armed", !.chain = ch]
    /\ RouteOff /\ EvalOff /\ ConfOff /\ ConnOff /\ ReloadOff /\ RelayOff /\ HandshakeOff /\ SyncOff

NextDial ==
    \/ DialContext
    \/ Tick
    \/ TimedCancel
    \/ DialCompletes
    \/ DialAborted
    \/ TimedHandshakeResult
    \/ TimedHandshakeCtxDone

SpecDial == InitDial /\ [][NextDial]_vars

\* C19: a raw dial that is pending has lasted no longer than
\* tcpConnectTimeout, and a handshake that is pending is no later than
\* tcpReadTimeout: each timeout bounds its own step.
C19_EachTimeoutBoundsItsStep ==
    /\ dial.pc = "dialing" => dial.now - dial.dialAt <= dial.chain.tcpConnectTimeout
    /\ dial.pc = "handshake" => dial.now <= dial.chain.tcpReadTimeout

\* C19 witness: a dial that did not complete was given up only at the
\* tcpReadTimeout deadline, later than tcpConnectTimeout after it began
C19_Witness ==
    /\ dial.pc = "done" /\ dial.err = "dial" /\ dial.by = "ctx"
    /\ ~dial.cancelled
    /\ dial.now - dial.dialAt > dial.chain.tcpConnectTimeout

-----------------------------------------------------------------------------
(* Claims on the forward listeners of a candidate *)

\* the forward servers of a configuration that name a chain that is neither
\* declared nor the implicit chain of a proxy
DanglingForwarders(config) ==
    {config.Servers[i].descrString : i \in
        {j \in 1..Len(config.Servers) :
            /\ config.Servers[j].prot = "fwd"
            /\ config.Servers[j].chain \notin DOMAIN WithImplicitChains(config)}}

\* C20: a candidate one of whose forward listeners names a chain that does
\* not exist is rejected: the reload loop stays waiting on it, and no
\* listener of the program is ever such a forward listener, installed in
\* gServerConf.servers or run.
C20_ForwardToUndeclaredChainRejected ==
    /\ (candidate # 0 /\ ~Configs[candidate].parseErr
            /\ DanglingForwarders(Configs[candidate]) # {}) => mainPc = "wait"
    /\ \A c \in 1..Len(Configs) :
          ~Configs[c].parseErr =>
             \A descr \in DanglingForwarders(Configs[c]) :
                 /\ ~Listed(heap, gServers, descr)
                 /\ \A g \in runs : g.descr # descr

\* C20 witness: the forward listener of the undeclared chain c9 accepts
\* connections
C20_Witness ==
    /\ Listed(heap, gServers, SrvF.descrString)
    /\ \E g \in runs : g.descr = SrvF.descrString /\ g.pc = "select"
    /\ "c9" \notin DOMAIN gChains

-----------------------------------------------------------------------------
(* Claims on the configurations reload installs *)

\* the configurations main is installing or has installed something of
InstalledConfigs ==
    ({gen.chains, gen.hosts, gen.routes, accepted}
        \cup (IF mainPc = "wait" THEN {} ELSE {candidate})) \ {0}

\* C21: the chains table installed from a configuration holds, for every
\* proxy P the configuration declares, a chain named P made of the proxy P
\* alone with proxyDns=true, tcpConnectTimeout 1000 and tcpReadTimeout
\* 2000; and a configuration with a chain named as one of its proxies is
\* rejected as a whole: the loop stays waiting and nothing is installed
\* from it.
C21_ImplicitChainPerProxy ==
    /\ gen.chains # 0 =>
          \A P \in Configs[gen.chains].Proxies :
              /\ P \in DOMAIN gChains
              /\ gChains[P] = [proxyDns |-> TRUE, tcpConnectTimeout |-> 1000,
                               tcpReadTimeout |-> 2000, proxies |-> <<P>>]
    /\ \A c \in 1..Len(Configs) :
          (~Configs[c].parseErr /\ Configs[c].Proxies \cap DOMAIN Configs[c].Chains # {}) =>
              /\ c \notin InstalledConfigs
              /\ candidate = c => mainPc = "wait"

\* C21 witness: the configuration that declares p1 and p2 and the chain c1
\* was installed; the chains table holds p1, p2 and c1
C21_Witness ==
    /\ mainPc = "wait" /\ accepted = 3 /\ gen.chains = 3
    /\ DOMAIN gChains = {"p1", "p2", "c1"}
    /\ gChains["p2"].proxies = <<"p2">>

\* the names a configuration may use exist in it
ReferentiallyClosed(config) ==
    LET chainNames == DOMAIN config.Chains \cup config.Proxies IN
    /\ \A c \in DOMAIN config.Chains : \A i \in 1..Len(config.Chains[c].Proxies) :
          config.Chains[c].Proxies[i] \in config.Proxies
    /\ \A t \in DOMAIN config.Routes : \A i \in 1..Len(config.Routes[t].Blocks) :
          config.Routes[t].Blocks[i].Route \in chainNames \cup {"drop"}
    /\ \A i \in 1..Len(config.Servers) :
          config.Servers[i].prot \in {"socks5", "http"} =>
              config.Servers[i].table \in DOMAIN config.Routes

\* C22: with JSON routing, every configuration main installs anything of
\* is referentially closed: the proxies of its chains are declared, the
\* routes of its rule blocks are "drop" or chains, explicit or implicit,
\* and the tables of its SOCKS5 and HTTP listeners are declared.
C22_InstalledConfigIsClosed ==
    gArgPACPath = "" =>
        \A c \in InstalledConfigs :
            ~Configs[c].parseErr /\ ReferentiallyClosed(Configs[c])

\* C22 witness: with JSON routing, the configuration whose table routes to
\* the implicit chain p1 was installed
C22_Witness ==
    /\ gArgPACPath = "" /\ mainPc = "wait"
    /\ accepted = 2 /\ gen.routes = 2 /\ gen.chains = 2

-----------------------------------------------------------------------------
(* Claims on disabled rule blocks *)

\* the declared table, its disabled blocks deleted from the declaration
DisabledRemoved(j) == [j EXCEPT !.Blocks = SelectSeq(@, LAMBDA b : ~b.Disable)]

\* C23: getRoute on a declared table returns, route or error, what it
\* returns on the same declaration with its disabled blocks deleted: a
\* disabled block neither matches nor raises an evaluation error.
C23_DisabledBlocksHaveNoEffect ==
    rtOut.done =>
        LET r == GetRoute(UnmarshalTable(DisabledRemoved(rtJson)), rtAddr) IN
        rtOut.err = r.err /\ rtOut.route = r.route

\* C23 witness: the first declared block is disabled and its rule cannot be
\* evaluated on the address; getRoute returned a route
C23_Witness ==
    /\ rtOut.done /\ ~rtOut.err
    /\ Len(rtJson.Blocks) = 2
    /\ rtJson.Blocks[1].Disable /\ ~rtJson.Blocks[2].Disable
    /\ Evaluate(rtJson.Blocks[1].Rules, rtAddr).err
    /\ rtOut.route = rtJson.Blocks[2].Route

-----------------------------------------------------------------------------
(* Claims on the chain trace *)

\* the address handshake i of the chain asks its proxy for
HopTarget(i) ==
    IF i < ChainLen THEN connect.chain.proxies[i + 1].address ELSE connect.address

\* the trace of a chain of at least one proxy whose first k handshakes were
\* started, the last of them failing when failed
TraceOfHops(k, failed) ==
    << [sign |-> "--->", addr |-> connect.chain.proxies[1].address, err |-> ""] >>
    \o [i \in 1..k |->
          IF failed /\ i = k THEN [sign |-> "=X=>", addr |-> HopTarget(i), err |-> "err"]
          ELSE [sign |-> "===>", addr |-> HopTarget(i), err |-> ""]]

\* C24: when connectN has returned to connect, the trace is: for a chain of
\* no proxy, "---> A" on success and "-X-> A (err)" on a dial failure, A
\* being the address dialled; for a chain of n >= 1 proxies that succeeds,
\* "---> p1" then " ===> X" for each handshake in order, X being the next
\* proxy and at last the target; on a failed handshake the trace ends with
\* " =X=> X (err)" for that hop, after the " ===> " of the hops before it,
\* and nothing of a later hop.
C24_TraceFollowsHopOutcomes ==
    (connect.pc = "done" /\ connect.err \notin {"split", "dns"}) =>
        IF ChainLen = 0
        THEN /\ connect.err \in {"", "dial"}
             /\ connect.repr =
                   << IF connect.err = ""
                      THEN [sign |-> "--->", addr |-> connect.address, err |-> ""]
                      ELSE [sign |-> "-X->", addr |-> connect.address, err |-> "err"] >>
             /\ Len(io.dials) = 1 /\ io.dials[1].to = connect.address
        ELSE IF connect.err = "" THEN connect.repr = TraceOfHops(ChainLen, FALSE)
        ELSE IF connect.err = "dial"
        THEN connect.repr =
               << [sign |-> "-X->", addr |-> connect.chain.proxies[1].address, err |-> "err"] >>
        ELSE /\ Len(hs) \in 1..ChainLen
             /\ connect.repr = TraceOfHops(Len(hs), TRUE)

\* C24 witness: on a chain of two proxies the handshake with the first
\* one failed; the trace ends there
C24_Witness ==
    /\ connect.pc = "done" /\ connect.err = "handshake"
    /\ ChainLen = 2 /\ Len(hs) = 1
    /\ connect.repr =
          << [sign |-> "--->", addr |-> ProxyAddress(1), err |-> ""],
             [sign |-> "=X=>", addr |-> ProxyAddress(2), err |-> "err"] >>

-----------------------------------------------------------------------------
(* Claims on the negotiation of the SOCKS5 listener *)

\* C26: on a SOCKS5 listener, a client whose version 5 method list was
\* read and does not hold 0x00 is sent 05 FF and its connection is closed
\* with no request read; a client whose list holds 0x00 is sent 05 00
\* first.
C26_NoAcceptableMethodRefused ==
    (handler.kind = "socks5" /\ handler.pc # "greeting"
        /\ handler.greeting.readOk /\ handler.greeting.ver = 5) =>
        IF 0 \notin handler.greeting.methods
        THEN /\ handler.pc = "closed" /\ client.closed
             /\ client.got = << SocksReply(<<5, 255>>) >>
        ELSE client.got # << >> => client.got[1] = SocksReply(<<5, 0>>)

\* C26 witness: a client that offers only method 0x02 was disconnected
\* without any reply
C26_Witness ==
    /\ handler.kind = "socks5" /\ handler.pc = "closed" /\ client.closed
    /\ handler.greeting.readOk /\ handler.greeting.ver = 5
    /\ handler.greeting.methods = {2}
    /\ client.got = << >>

\* C27: on a SOCKS5 listener, a request whose CMD is not CONNECT is
\* answered with the ten bytes 05 07 00 01 00 00 00 00 00 00 and the
\* connection is closed: no address is taken from it, no route is looked
\* up and nothing is dialled.
C27_UnsupportedCommandFullReply ==
    (handler.kind = "socks5" /\ handler.pc \notin {"greeting", "request"}
        /\ Len(client.got) >= 1
        /\ handler.sreq.readOk /\ handler.sreq.cmd # 1) =>
        /\ handler.pc = "closed" /\ client.closed
        /\ client.got = << SocksReply(<<5, 0>>), SocksReply(<<5, 7, 0, 1, 0, 0, 0, 0, 0, 0>>) >>
        /\ handler.addr = << >> /\ handler.chainStr = ""
        /\ io = NoIo /\ connect = NoConnect /\ sock = NoSock

\* C27 witness: a BIND request was answered with the two bytes 05 07
C27_Witness ==
    /\ handler.kind = "socks5" /\ handler.pc = "closed" /\ client.closed
    /\ handler.sreq.readOk /\ handler.sreq.cmd = 2
    /\ client.got = << SocksReply(<<5, 0>>), SocksReply(<<5, 7>>) >>
    /\ handler.addr = << >> /\ io = NoIo

-----------------------------------------------------------------------------
(* The SOCKS5 address codec: stringToAddr and addrToString (socks5.go).   *)
(* The bytes of an IP address and of a port are numbers; the bytes of a   *)
(* domain are its tokens, one token standing for one byte of the name, so *)
(* that the length byte of a domain counts tokens.                        *)

Zeros(n) == [i \in 1..n |-> 0]

\* the 16 bytes net.ParseIP gives for "::" and for "::n", n a single group
\* that reads the same in decimal and in hexadecimal
V6Bytes(h) ==
    IF Len(h) = 2 /\ IsNum(h[2]) THEN Zeros(15) \o <<h[2].n>> ELSE Zeros(16)

\* net.IP.String of 4 or 16 bytes: a 16-byte address that To4() converts
\* is printed as a dotted quad
IPString(b) ==
    IF Len(b) = 4 THEN Dotted(b[1], b[2], b[3], b[4])
    ELSE IF (\A i \in 1..10 : b[i] = 0) /\ b[11] = 255 /\ b[12] = 255
    THEN Dotted(b[13], b[14], b[15], b[16])
    ELSE IF \A i \in 1..16 : b[i] = 0 THEN <<Sym("::")>>
    ELSE <<Sym("::"), Num(b[16])>>

\* stringToAddr: [atyp, data, err]
StringToAddr(addr) ==
    LET sp == SplitHostPort(addr) IN
    IF sp.err THEN [atyp |-> 0, data |-> << >>, err |-> TRUE]
    ELSE LET ip == ParseIP(sp.host)
             atyp == IF ip.kind = "nil" THEN 3 ELSE IF ip.kind = "v4" THEN 1 ELSE 4
             hostBytes == IF ip.kind = "nil" THEN <<Len(sp.host) % 256>> \o sp.host
                          ELSE IF ip.kind = "v4" THEN ip.oct
                          ELSE V6Bytes(sp.host)
         IN  IF ~(Len(sp.port) = 1 /\ IsNum(sp.port[1]))             \* strconv.Atoi
             THEN [atyp |-> atyp, data |-> << >>, err |-> TRUE]
             ELSE LET p == sp.port[1].n % 65536 IN                   \* uint16(portInt)
                  [atyp |-> atyp, data |-> hostBytes \o <<p \div 256, p % 256>>,
                   err |-> FALSE]

\* addrToString over a reader that holds data: [addr, err]
AddrToString(atyp, data) ==
    LET bad  == [addr |-> << >>, err |-> TRUE]
        size == IF atyp = 1 THEN 4
                ELSE IF atyp = 4 THEN 16
                ELSE IF atyp = 3 /\ Len(data) >= 1 THEN data[1]
                ELSE -1
        from == IF atyp = 3 THEN 2 ELSE 1
    IN  IF size < 0 THEN bad                       \* invalid atyp, or no size byte
        ELSE IF Len(data) < from + size + 1 THEN bad                  \* io.ReadFull
        ELSE LET buf  == Slice(data, from, from + size - 1)
                 host == IF atyp # 3 THEN IPString(buf) ELSE buf
                 port == data[from + size] * 256 + data[from + size + 1]
             IN  [addr |-> JoinHostPort(host, <<Num(port)>>), err |-> FALSE]

CodecHosts ==
    {<<Lab("foo")>>, <<Lab("www"), Sym("."), Lab("foo")>>,
     Dotted(10, 1, 2, 3), Dotted(192, 168, 0, 1),
     <<Sym("::")>>, <<Sym("::"), Num(1)>>,
     <<Sym("::"), Lab("ffff"), Sym(":")>> \o Dotted(10, 1, 2, 3)}

CodecPorts == {<<Num(0)>>, <<Num(22)>>, <<Num(80)>>, <<Num(65535)>>, <<Num(65536)>>,
               <<Lab("http")>>}

CodecAddrs == {JoinHostPort(h, p) : h \in CodecHosts, p \in CodecPorts} \cup {AddrNoPort}

\* the dialer encodes the address of its request
Encode ==
    /\ codec.pc = "encode"
    /\ LET e == StringToAddr(codec.addr) IN
       codec' = [codec EXCEPT !.pc = IF e.err THEN "done" ELSE "decode",
                              !.atyp = e.atyp, !.data = e.data, !.encErr = e.err]
    /\ UNCHANGED <<routeVars, evalVars, confVars, connVars, reloadVars, relayVars, dial,
                   s5, hc, sync>>

\* the handler at the other end decodes it
Decode ==
    /\ codec.pc = "decode"
    /\ LET d == AddrToString(codec.atyp, codec.data) IN
       codec' = [codec EXCEPT !.pc = "done", !.out = d.addr, !.decErr = d.err]
    /\ UNCHANGED <<routeVars, evalVars, confVars, connVars, reloadVars, relayVars, dial,
                   s5, hc, sync>>

InitCodec ==
    /\ \E a \in CodecAddrs : codec = [NoCodec EXCEPT !.pc = "encode", !.addr = a]
    /\ s5 = NoS5 /\ hc = NoHc
    /\ RouteOff /\ EvalOff /\ ConfOff /\ ConnOff /\ ReloadOff /\ RelayOff /\ DialOff /\ SyncOff

NextCodec == Encode \/ Decode

SpecCodec == InitCodec /\ [][NextCodec]_vars

\* the address is host:port with a port in 0..65535
CodecInDomain(addr) ==
    LET sp == SplitHostPort(addr) IN
    ~sp.err /\ Len(sp.port) = 1 /\ IsNum(sp.port[1]) /\ sp.port[1].n <= 65535

\* C25: an address host:port, host an IPv4 literal, an IPv6 literal or a
\* domain and port in 0..65535, is encoded without error, with ATYP 1 for
\* an IPv4 literal, 4 for an IPv6 literal and 3 for a domain, and decoding
\* the encoder's ATYP and bytes gives the address back.
C25_AddressCodecRoundTrip ==
    (codec.pc = "done" /\ CodecInDomain(codec.addr)) =>
        LET host == SplitHostPort(codec.addr).host IN
        /\ ~codec.encErr /\ ~codec.decErr
        /\ codec.atyp = IF IsDottedQuad(host) THEN 1
                        ELSE IF \E j \in 1..Len(host) : HasColon(host[j]) THEN 4
                        ELSE 3
        /\ codec.out = codec.addr

\* C25 witness: [::ffff:10.1.2.3]:80 was encoded with ATYP 1 and decoded
\* as 10.1.2.3:80
C25_Witness ==
    /\ codec.pc = "done" /\ codec.addr = AddrMapped
    /\ codec.atyp = 1 /\ codec.data = <<10, 1, 2, 3, 0, 80>>
    /\ ~codec.decErr /\ codec.out = AddrTen

-----------------------------------------------------------------------------
(* The SOCKS5 dialer: socks5.handshake (socks5.go) over the stream of the *)
(* proxy. The proxy's bytes arrive in segments of any size (toSend ->     *)
(* wire); the handshake reads them through its own bufio.Reader           *)
(* (wire -> buffered -> got), which is dropped when handshake returns.    *)

\* the greeting the dialer writes
Greeting(user) == IF user THEN <<5, 2, 0, 2>> ELSE <<5, 1, 0>>

RepErrorAlwaysGeneral(r) == "general SOCKS server failure"

\* the error of a reply whose REP is not 0
RepError(r) ==
    IF r = 1 THEN "general SOCKS server failure"
    ELSE IF r = 2 THEN "connection not allowed by ruleset"
    ELSE IF r = 3 THEN "network unreachable"
    ELSE IF r = 4 THEN "host unreachable"
    ELSE IF r = 5 THEN "connection refused"
    ELSE IF r = 6 THEN "TTL expired"
    ELSE IF r = 7 THEN "command not supported"
    ELSE IF r = 8 THEN "address type not supported"
    ELSE "custom SOCKS5 error byte"

\* BND.ADDR of a reply, by ATYP: 4 bytes, 16 bytes, or a length and a name
BndAddr(atyp) ==
    IF atyp = 1 THEN Zeros(4) ELSE IF atyp = 4 THEN Zeros(16) ELSE <<3, 102, 111, 111>>

\* VER REP RSV ATYP BND.ADDR BND.PORT
ProxyReply(rep, atyp) == <<5, rep, 0, atyp>> \o BndAddr(atyp) \o <<0, 0>>

\* what an upstream proxy may do: its method selection, then, if it
\* selected "no authentication", its reply, then, if it accepted, the
\* first bytes of the target
Socks5Proxies ==
    {[ver |-> v, method |-> m, rep |-> 0, atyp |-> 1, payload |-> << >>] :
        v \in {4, 5}, m \in {0, 2, 255}}
    \cup {[ver |-> 5, method |-> 0, rep |-> r, atyp |-> 1, payload |-> << >>] : r \in 1..9}
    \cup {[ver |-> 5, method |-> 0, rep |-> 0, atyp |-> a, payload |-> pl] :
            a \in {1, 3, 4}, pl \in {<< >>, <<83>>}}

ProxyStream(x) ==
    <<x.ver, x.method>>
    \o (IF x.ver = 5 /\ x.method = 0 THEN ProxyReply(x.rep, x.atyp) \o x.payload ELSE << >>)

\* the next segment of the proxy reaches the socket: the reply is not sent
\* before the request was written
ProxySends ==
    /\ s5.pc \in {"method", "reply"} /\ ~s5.eof
    /\ \E k \in 1..Len(s5.toSend) :
          /\ Len(s5.wrote) = 2 \/ s5.sent + k <= 2
          /\ s5' = [s5 EXCEPT !.wire = @ \o SubSeq(s5.toSend, 1, k),
                              !.toSend = Slice(s5.toSend, k + 1, Len(s5.toSend)),
                              !.sent = @ + k]
    /\ UNCHANGED <<routeVars, evalVars, confVars, connVars, reloadVars, relayVars, dial,
                   codec, hc, sync>>

\* the proxy closes the connection and sends nothing more
ProxyCloses ==
    /\ s5.pc \in {"method", "reply"} /\ ~s5.eof
    /\ s5' = [s5 EXCEPT !.toSend = << >>, !.eof = TRUE]
    /\ UNCHANGED <<routeVars, evalVars, confVars, connVars, reloadVars, relayVars, dial,
                   codec, hc, sync>>

\* conn.Write of the greeting
S5WriteGreeting ==
    /\ s5.pc = "start"
    /\ \E writeOk \in BOOLEAN :
          s5' = IF writeOk
                THEN [s5 EXCEPT !.pc = "method", !.wrote = <<Greeting(s5.user)>>]
                ELSE [s5 EXCEPT !.pc = "done", !.err = "write"]
    /\ UNCHANGED <<routeVars, evalVars, confVars, connVars, reloadVars, relayVars, dial,
                   codec, hc, sync>>

\* the number of bytes the pending io.ReadFull asks for
S5Need == IF s5.pc = "method" THEN 2 ELSE 4

\* one Read of io.ReadFull on the bufio.Reader: an empty buffer is filled
\* with all that the socket holds, then the buffer is copied out; at the
\* end of the stream the read fails
S5Read ==
    /\ s5.pc \in {"method", "reply"} /\ Len(s5.got) < S5Need
    /\ IF s5.buffered # << >> \/ s5.wire # << >>
       THEN LET buf == IF s5.buffered # << >> THEN s5.buffered ELSE s5.wire
                n   == IF S5Need - Len(s5.got) < Len(buf) THEN S5Need - Len(s5.got)
                       ELSE Len(buf)
            IN  s5' = [s5 EXCEPT !.got = @ \o SubSeq(buf, 1, n),
                                 !.buffered = Slice(buf, n + 1, Len(buf)),
                                 !.wire = IF s5.buffered # << >> THEN @ ELSE << >>]
       ELSE /\ s5.eof
            /\ s5' = [s5 EXCEPT !.pc = "done", !.err = "read"]
    /\ UNCHANGED <<routeVars, evalVars, confVars, connVars, reloadVars, relayVars, dial,
                   codec, hc, sync>>

\* VER METHOD was read: the request is built and written
S5Method ==
    /\ s5.pc = "method" /\ Len(s5.got) = 2
    /\ \E writeOk \in BOOLEAN :
          LET ver    == s5.got[1]
              method == s5.got[2]
              a      == StringToAddr(s5.address)
              fail(e) == [s5 EXCEPT !.pc = "done", !.err = e]
          IN  s5' = IF ver # 5 THEN fail("SOCKS5 server's version != 5")
                    ELSE IF method = 2 THEN fail("user/password method not yet implemented")
                    ELSE IF method # 0 THEN fail("unsupported authentication mechanism")
                    ELSE IF a.err THEN fail("address")
                    ELSE IF ~writeOk THEN fail("write")
                    ELSE [s5 EXCEPT !.pc = "reply", !.got = << >>,
                                    !.wrote = Append(@, <<5, 1, 0, a.atyp>> \o a.data)]
    /\ UNCHANGED <<routeVars, evalVars, confVars, connVars, reloadVars, relayVars, dial,
                   codec, hc, sync>>

\* VER REP RSV ATYP was read: handshake returns
S5Reply ==
    /\ s5.pc = "reply" /\ Len(s5.got) = 4
    /\ s5' = [s5 EXCEPT !.pc = "done",
                        !.err = IF s5.got[2] # 0 THEN RepError(s5.got[2]) ELSE ""]
    /\ UNCHANGED <<routeVars, evalVars, confVars, connVars, reloadVars, relayVars, dial,
                   codec, hc, sync>>

InitSocks5Dial ==
    /\ \E u \in BOOLEAN, a \in {AddrFoo, AddrTen, AddrNoPort}, x \in Socks5Proxies :
          s5 = [NoS5 EXCEPT !.pc = "start", !.user = u, !.address = a, !.proxy = x,
                            !.toSend = ProxyStream(x)]
    /\ codec = NoCodec /\ hc = NoHc
    /\ RouteOff /\ EvalOff /\ ConfOff /\ ConnOff /\ ReloadOff /\ RelayOff /\ DialOff /\ SyncOff

NextSocks5Dial ==
    \/ ProxySends
    \/ ProxyCloses
    \/ S5WriteGreeting
    \/ S5Read
    \/ S5Method
    \/ S5Reply

SpecSocks5Dial == InitSocks5Dial /\ [][NextSocks5Dial]_vars

\* the bytes of the proxy that the next reader of the stream will read
S5Remaining == s5.wire \o s5.toSend

\* C28: when the SOCKS5 dialer handshake has succeeded on a stream the
\* proxy keeps open, the bytes left for the next reader of the stream are
\* exactly those that follow BND.PORT: the whole reply was consumed.
C28_StreamPositionedAfterReply ==
    (s5.pc = "done" /\ s5.err = "" /\ ~s5.eof) => S5Remaining = s5.proxy.payload

\* C28 witness: the handshake has succeeded and BND.ADDR and BND.PORT of
\* an ATYP 1 reply are still on the stream, before the target's byte
C28_Witness ==
    /\ s5.pc = "done" /\ s5.err = "" /\ ~s5.eof
    /\ s5.proxy.atyp = 1 /\ s5.proxy.payload = <<83>>
    /\ S5Remaining = <<0, 0, 0, 0, 0, 0, 83>>

\* the name RFC 1928 gives each reply field
Rfc1928Reply ==
    <<"general SOCKS server failure", "connection not allowed by ruleset",
      "network unreachable", "host unreachable", "connection refused",
      "TTL expired", "command not supported", "address type not supported">>

\* C29: the greeting of the SOCKS5 dialer offers methods 0 and 2 with a
\* user and method 0 without; the request is written only after VER 5
\* METHOD 0 was read; METHOD 2 fails as not implemented, another method or
\* version as a protocol error, with no request written; and, the reply
\* read, the handshake succeeds exactly when REP is 0, REP 1..8 failing
\* with its named error.
C29_Socks5DialerStateMachine ==
    /\ Len(s5.wrote) >= 1 =>
          s5.wrote[1] = IF s5.user THEN <<5, 2, 0, 2>> ELSE <<5, 1, 0>>
    /\ Len(s5.wrote) = 2 =>
          /\ s5.proxy.ver = 5 /\ s5.proxy.method = 0
          /\ SubSeq(s5.wrote[2], 1, 3) = <<5, 1, 0>>
    /\ (s5.pc = "done" /\ s5.err \notin {"write", "read", "address"}) =>
          IF s5.proxy.ver # 5
          THEN s5.err = "SOCKS5 server's version != 5" /\ Len(s5.wrote) = 1
          ELSE IF s5.proxy.method = 2
          THEN s5.err = "user/password method not yet implemented" /\ Len(s5.wrote) = 1
          ELSE IF s5.proxy.method # 0
          THEN s5.err = "unsupported authentication mechanism" /\ Len(s5.wrote) = 1
          ELSE /\ Len(s5.wrote) = 2
               /\ s5.err = "" <=> s5.proxy.rep = 0
               /\ s5.proxy.rep \in 1..8 => s5.err = Rfc1928Reply[s5.proxy.rep]

\* C29 witness: the reply 05 02 00 01 00 00 00 00 00 00 to the request
\* made the handshake fail with "connection not allowed by ruleset"
C29_Witness ==
    /\ s5.pc = "done" /\ s5.proxy.rep = 2 /\ Len(s5.wrote) = 2
    /\ s5.sent = 12 /\ s5.err = "connection not allowed by ruleset"

-----------------------------------------------------------------------------
(* The HTTP CONNECT dialer: httpConnect.handshake (httpconnect.go). The   *)
(* answer of the proxy is a sequence of lines [text, nl]: text is the     *)
(* tokens of the line, separated by spaces, without its "\n", and nl says *)
(* that the "\n" was sent.                                                *)

Line(text) == [text |-> text, nl |-> TRUE]

FirstDigit(n) == IF n < 10 THEN n ELSE IF n < 100 THEN n \div 10 ELSE n \div 100

StatusAcceptedAnyCode(line) ==
    /\ Len(line.text) >= 2
    /\ line.text[1] \in {Lab("HTTP/1.0"), Lab("HTTP/1.1"), Lab("HTTP/2")}

\* strings.HasPrefix(response_line, "HTTP/1.0 2"), "HTTP/1.1 2" or "HTTP/2 2"
StatusAccepted(line) ==
    /\ Len(line.text) >= 2
    /\ line.text[1] \in {Lab("HTTP/1.0"), Lab("HTTP/1.1"), Lab("HTTP/2")}
    /\ IsNum(line.text[2]) /\ FirstDigit(line.text[2].n) = 2

\* response_line is "\n" or "\r\n"
IsEmptyLine(line) == line.nl /\ line.text \in {<< >>, <<Sym("\\r")>>}

\* the request the dialer writes: "CONNECT address HTTP/1.1", "Host: host",
\* and "Proxy-Authorization: Basic ..." if a user is configured
ConnectRequest(address, user) ==
    [line  |-> <<Lab("CONNECT")>> \o address \o <<Lab("HTTP/1.1")>>,
     host  |-> SplitHostPort(address).host,
     proxyAuthorization |-> IF user THEN "Basic" ELSE ""]

StatusLines ==
    {<<Lab(v), Num(c), Lab("Text")>> :
        v \in {"HTTP/1.0", "HTTP/1.1", "HTTP/2", "HTTP/3"}, c \in {200, 403}}
    \cup {<<Lab("HTTP/1.1"), Num(204), Sym("\\r")>>, <<Lab("HTTP/1.1"), Num(502)>>,
          <<Lab("SSH-2.0")>>}

HeaderLines == {<<Lab("Header:"), Lab("value")>>, << >>, <<Sym("\\r")>>}

\* what an upstream proxy may answer: a status line and up to MaxHeaders
\* lines, the last of which may lack its "\n"
ProxyAnswers ==
    {<< >>}
    \cup {<<[text |-> st, nl |-> b]>> : st \in StatusLines, b \in BOOLEAN}
    \cup UNION {{<<Line(st)>> \o [i \in 1..n |-> [text |-> h[i], nl |-> i < n \/ b]] :
                    st \in StatusLines, h \in [1..n -> HeaderLines], b \in BOOLEAN} :
                n \in 1..MaxHeaders}

\* reader.ReadString('\n'): the next line, or an error at a line the
\* stream ends in; a stream that stays open with no more line blocks
HcCanRead == hc.nread < Len(hc.lines) \/ hc.eof
HcReadFails == hc.nread = Len(hc.lines) \/ ~hc.lines[hc.nread + 1].nl

\* the address is split and the request is written
HcWriteRequest ==
    /\ hc.pc = "start"
    /\ \E writeOk \in BOOLEAN :
          hc' = IF SplitHostPort(hc.address).err
                THEN [hc EXCEPT !.pc = "done", !.err = "address"]
                ELSE IF ~writeOk THEN [hc EXCEPT !.pc = "done", !.err = "write"]
                ELSE [hc EXCEPT !.pc = "status",
                                !.wrote = <<ConnectRequest(hc.address, hc.user)>>]
    /\ UNCHANGED <<routeVars, evalVars, confVars, connVars, reloadVars, relayVars, dial,
                   codec, s5, sync>>

\* the status line is read and checked
HcStatus ==
    /\ hc.pc = "status" /\ HcCanRead
    /\ hc' = IF HcReadFails
             THEN [hc EXCEPT !.pc = "done", !.err = "read", !.nread = Len(hc.lines)]
             ELSE IF ~StatusAccepted(hc.lines[1])
             THEN [hc EXCEPT !.pc = "done", !.err = "refused", !.nread = 1]
             ELSE [hc EXCEPT !.pc = "headers", !.nread = 1]
    /\ UNCHANGED <<routeVars, evalVars, confVars, connVars, reloadVars, relayVars, dial,
                   codec, s5, sync>>

\* one turn of the loop that reads the header lines
HcHeader ==
    /\ hc.pc = "headers" /\ HcCanRead
    /\ hc' = IF HcReadFails
             THEN [hc EXCEPT !.pc = "done", !.err = "read", !.nread = Len(hc.lines)]
             ELSE IF IsEmptyLine(hc.lines[hc.nread + 1])
             THEN [hc EXCEPT !.pc = "done", !.nread = @ + 1]
             ELSE [hc EXCEPT !.nread = @ + 1]
    /\ UNCHANGED <<routeVars, evalVars, confVars, connVars, reloadVars, relayVars, dial,
                   codec, s5, sync>>

InitHttpDial ==
    /\ \E u \in BOOLEAN, a \in {AddrFoo, AddrV6, AddrNoPort}, ls \in ProxyAnswers,
          e \in BOOLEAN :
          hc = [NoHc EXCEPT !.pc = "start", !.user = u, !.address = a, !.lines = ls,
                            !.eof = e]
    /\ codec = NoCodec /\ s5 = NoS5
    /\ RouteOff /\ EvalOff /\ ConfOff /\ ConnOff /\ ReloadOff /\ RelayOff /\ DialOff /\ SyncOff

NextHttpDial == HcWriteRequest \/ HcStatus \/ HcHeader

SpecHttpDial == InitHttpDial /\ [][NextHttpDial]_vars

\* the status line was sent whole and begins with HTTP/1.0 2, HTTP/1.1 2
\* or HTTP/2 2
HcStatus2xx ==
    /\ Len(hc.lines) >= 1 /\ hc.lines[1].nl /\ Len(hc.lines[1].text) >= 2
    /\ \E c \in {200, 204} :
          \/ SubSeq(hc.lines[1].text, 1, 2) = <<Lab("HTTP/1.0"), Num(c)>>
          \/ SubSeq(hc.lines[1].text, 1, 2) = <<Lab("HTTP/1.1"), Num(c)>>
          \/ SubSeq(hc.lines[1].text, 1, 2) = <<Lab("HTTP/2"), Num(c)>>

\* the empty lines the proxy sent after its status line
HcEmptyLines ==
    {i \in 2..Len(hc.lines) : hc.lines[i].nl /\ hc.lines[i].text \in {<< >>, <<Sym("\\r")>>}}

\* C30: the HTTP CONNECT dialer writes one CONNECT request for the
\* target, with Proxy-Authorization: Basic exactly when a user is
\* configured; it succeeds exactly when the status line starts with
\* HTTP/1.0 2, HTTP/1.1 2 or HTTP/2 2 and an empty line follows, having
\* read the lines up to that empty line and no further; on another status
\* it fails having read the status line only; and it fails when the
\* stream ends before the empty line.
C30_HttpConnectDialerHandshake ==
    (hc.pc = "done" /\ hc.err \notin {"address", "write"}) =>
        /\ Len(hc.wrote) = 1
        /\ hc.wrote[1].line = <<Lab("CONNECT")>> \o hc.address \o <<Lab("HTTP/1.1")>>
        /\ hc.wrote[1].proxyAuthorization # "" <=> hc.user
        /\ hc.err = "" <=> (HcStatus2xx /\ HcEmptyLines # {})
        /\ hc.err = "" => hc.nread = SetMin(HcEmptyLines)
        /\ (Len(hc.lines) >= 1 /\ hc.lines[1].nl /\ ~HcStatus2xx) =>
              hc.err # "" /\ hc.nread = 1
        /\ (HcStatus2xx /\ HcEmptyLines = {}) => hc.err = "read"

\* C30 witness: with a user configured, "HTTP/1.1 200", a header line and
\* an empty line were read and the handshake succeeded
C30_Witness ==
    /\ hc.pc = "done" /\ hc.err = "" /\ hc.user
    /\ hc.wrote = <<[line |-> <<Lab("CONNECT")>> \o AddrFoo \o <<Lab("HTTP/1.1")>>,
                     host |-> <<Lab("foo")>>, proxyAuthorization |-> "Basic"]>>
    /\ hc.lines = <<Line(<<Lab("HTTP/1.1"), Num(200), Lab("Text")>>),
                    Line(<<Lab("Header:"), Lab("value")>>), Line(<< >>)>>
    /\ hc.nread = 3

-----------------------------------------------------------------------------
(* Claims on errors of the routing engine *)

\* block b of a table fails on addr: its rule fails, or it is a combo of
\* two rules one of which fails, or whose operator is unknown
BlockFails(b, addr) ==
    IF b.Rules.type = "rule" THEN RuleEvaluate(b.Rules, addr).err
    ELSE \/ RuleEvaluate(b.Rules.Rule1, addr).err
         \/ RuleEvaluate(b.Rules.Rule2, addr).err
         \/ b.Rules.Op \notin OpAnd \cup OpOr

\* block b does not fail and matches addr
BlockMatches(b, addr) ==
    /\ ~BlockFails(b, addr)
    /\ IF b.Rules.type = "rule" THEN RuleEvaluate(b.Rules, addr).val
       ELSE LET v1 == RuleEvaluate(b.Rules.Rule1, addr).val
                v2 == RuleEvaluate(b.Rules.Rule2, addr).val
            IN  IF b.Rules.Op \in OpAnd THEN v1 /\ v2 ELSE v1 \/ v2

\* getRoute evaluates a block that fails: no block before it matches
EvaluatedBlockFails(table, addr) ==
    \E i \in 1..Len(table.Blocks) :
        /\ BlockFails(table.Blocks[i], addr)
        /\ \A j \in 1..(i - 1) : ~BlockMatches(table.Blocks[j], addr)

\* C31: in JSON routing mode, when a block that getRoute evaluates fails
\* on the requested address (a combo failing as soon as one of its
\* children fails, whatever its operator and its other child), a handler
\* that has left the routing stage has ended: the client got REP 0x01 or
\* 400 as its last answer and is closed, and no chain was looked up,
\* nothing was resolved and nothing was dialled.
C31_RuleErrorAbortsRequest ==
    (/\ handler.kind \in {"socks5", "http"} /\ gArgPACPath = ""
     /\ handler.pc \notin {"greeting", "request", "route"}
     /\ handler.addr # << >>
     /\ EvaluatedBlockFails(gRouting[handler.table], handler.addr)) =>
        /\ handler.pc = "closed" /\ client.closed
        /\ client.got # << >>
        /\ client.got[Len(client.got)] =
              IF handler.kind = "socks5" THEN SocksReply(<<5, 1>>) ELSE HttpReply(400)
        /\ handler.chainStr = ""
        /\ io = NoIo /\ connect = NoConnect /\ sock = NoSock /\ hs = << >>

\* C31 witness: the request for foo:80, on a table whose first block is
\* (host matches ^foo$) OR (a regexp that does not compile), was refused
\* with 400
C31_Witness ==
    /\ handler.kind = "http" /\ gArgPACPath = "" /\ handler.pc = "closed"
    /\ handler.addr = AddrFoo
    /\ gRouting["t1"].Blocks[1].Rules.type = "combo"
    /\ RuleEvaluate(gRouting["t1"].Blocks[1].Rules.Rule1, AddrFoo) = EvalOk(TRUE)
    /\ RuleEvaluate(gRouting["t1"].Blocks[1].Rules.Rule2, AddrFoo).err
    /\ client.got = << HttpReply(400) >> /\ io = NoIo

-----------------------------------------------------------------------------
(* Claims on the accept loop *)

\* C32: when Accept has returned an I/O error to a listener whose scope
\* is not cancelled, the process has not crashed and the accept loop of
\* that listener goes on.
C32_AcceptErrorKeepsListenerRunning ==
    \A g \in runs : g.pc = "acceptError" => ~crashed

\* C32 witness: Accept failed on a listener that was not being stopped and
\* the process died
C32_Witness ==
    \E g \in runs : g.pc = "acceptError" /\ g.sel \notin ctxs.cancelled /\ crashed

\* the accept loops whose own scope, the context run() created, is cancelled
StoppedLoops == {g \in runs : g.pc = "select" /\ g.ctx0 \in ctxs.cancelled}

\* C33: a run() that returns does so after its listener's scope was
\* cancelled, and once the scope of a listener is cancelled its accept
\* loop eventually ends (a fatal failure ends the process and every loop
\* with it).
C33_RunReturnsIffScopeCancelled ==
    /\ [][\A g \in runs :
             (g.pc = "select" /\ ~crashed' /\ (\A h \in runs' : h.ctx0 # g.ctx0)) =>
                 g.ctx0 \in ctxs.cancelled]_vars
    /\ (StoppedLoops # {}) ~> (StoppedLoops = {} \/ crashed)

\* C33 witness: an accept loop waits on the scope of another listener
\* than its own: cancelling its own scope does not end it, and cancelling
\* the other one does
C33_Witness ==
    \E g \in runs : g.pc = "select" /\ g.sel # g.ctx0 /\ ~crashed

-----------------------------------------------------------------------------
(* Claims on the handshake goroutines of connectN *)

\* a handshake whose stream was closed returns: the pending read or write
\* fails at once
HandshakeUnblocked ==
    \E i \in 1..Len(hs) : sock.state = "closed" /\ HandshakeEnds(i)

\* the scheduler runs the program's steps, and the runtime fails the I/O
\* of a handshake whose stream is closed
SpecConnFairIO == SpecConnFair /\ WF_vars(HandshakeUnblocked)

\* C34: once connect has returned, every handshake goroutine connectN
\* started eventually has delivered its result and exited.
C34_HandshakeTasksTerminate ==
    (connect.pc = "done") ~> (\A i \in 1..Len(hs) : hs[i].st = "done")

\* C34 witness: connect returned on ctx.Done(), the stream was closed, the
\* handshake returned and its goroutine is blocked sending its result
C34_Witness ==
    /\ connect.pc = "done" /\ connect.err = "timeout" /\ sock.state = "closed"
    /\ \E i \in 1..Len(hs) : hs[i].st = "send"

-----------------------------------------------------------------------------
(* Claims on the listening sockets *)

\* the accept loops that hold a listening socket on the address of server s
Holders(s) ==
    {o \in runs : o.pc = "select" /\ BindAddress(o.descr) = BindAddress(s.descrString)}

\* C35: when a run() goroutine calls Listen, no accept loop of the
\* process holds a listening socket on the same address and port, and
\* the process does not panic on Listen.
C35_NeverBindsAnAddressItHolds ==
    [][\A g \in runs : RunStart(g) => (Holders(Deref(g)) = {} /\ ~crashed')]_vars

\* C35 witness: the listener socks5://127.0.0.1:1080:t2, which replaces
\* socks5://127.0.0.1:1080:t1, failed to listen while the accept loop of
\* the replaced listener was alive, and the process died
C35_Witness ==
    /\ crashed
    /\ \E g \in runs, o \in runs :
          /\ g.pc = "listenError" /\ g.descr = "socks5://127.0.0.1:1080:t2"
          /\ o.pc = "select" /\ o.descr = "socks5://127.0.0.1:1080:t1"

-----------------------------------------------------------------------------
(* Claims on the routes of the installed tables *)

\* the routes getRoute can return from a table: the route of a rule block,
\* or the default, or "drop" when the default is empty
ReturnableRoutes(table) ==
    {table.Blocks[i].Route : i \in 1..Len(table.Blocks)}
        \cup {IF table.Default # "" THEN table.Default ELSE "drop"}

\* C38: with JSON routing and no reload in progress, every route getRoute
\* can return from an installed table, its default included, is "drop" or
\* a chain of the installed chains table.
C38_ReturnableRoutesAreChains ==
    (gArgPACPath = "" /\ mainPc = "wait") =>
        \A t \in DOMAIN gRouting :
            ReturnableRoutes(gRouting[t]) \subseteq DOMAIN gChains \cup {"drop"}

\* C38 witness: the configuration whose table t1 has the default "c9", a
\* chain it does not declare, is installed whole and main waits for the
\* next signal
C38_Witness ==
    /\ gArgPACPath = "" /\ mainPc = "wait" /\ ~crashed
    /\ accepted = 3 /\ gen.routes = 3 /\ gen.chains = 3
    /\ gRouting["t1"].Default = "c9" /\ "c9" \notin DOMAIN gChains

-----------------------------------------------------------------------------
(* Claims on the audit of failed connections *)

\* connHandle returned with a connection-fatal error: no target was ever
\* handed to the handler
EndedWithError ==
    handler.pc = "closed" /\ ~handler.relayed /\ audit \notin {<<"OPEN">>, <<"OPEN", "CLOSE">>}

\* C39: a connection that ended with a connection-fatal error left
\* exactly one audit line, ERROR or DROPPED, and its client connection is
\* closed.
C39_FatalErrorAuditedOnce ==
    EndedWithError => (client.closed /\ audit \in {<<"ERROR">>, <<"DROPPED">>})

\* C39 witness: an HTTP CONNECT whose Host is its target ended with a
\* routing error: the client got 400 and was closed, and the audit log
\* is empty
C39_Witness ==
    /\ EndedWithError /\ handler.kind = "http"
    /\ handler.req.method = "CONNECT" /\ handler.req.hostMatches
    /\ client = [closed |-> TRUE, got |-> <<HttpReply(400)>>]
    /\ audit = << >>

-----------------------------------------------------------------------------
(* Claims on the bytes stringToAddr emits *)

\* C40: for an address host:port with a decimal port, stringToAddr
\* returns an error when the port is above 65535 or the domain is longer
\* than 255; otherwise the two port bytes it emits are the requested port
\* and the length prefix of a DOMAIN address is the number of domain
\* bytes that follow.
C40_EncodesTheRequestedAddress ==
    LET sp == SplitHostPort(codec.addr) IN
    (codec.pc \in {"decode", "done"} /\ ~sp.err /\ Len(sp.port) = 1 /\ IsNum(sp.port[1])) =>
        IF sp.port[1].n > 65535 \/ (ParseIP(sp.host).kind = "nil" /\ Len(sp.host) > 255)
        THEN codec.encErr
        ELSE ~codec.encErr =>
                LET n == Len(codec.data) IN
                /\ codec.data[n - 1] * 256 + codec.data[n] = sp.port[1].n
                /\ codec.atyp = 3 => codec.data[1] = n - 3

\* C40 witness: foo:65536 was encoded without error as the DOMAIN foo
\* with the port bytes 00 00
C40_Witness ==
    /\ codec.pc \in {"decode", "done"}
    /\ codec.addr = JoinHostPort(<<Lab("foo")>>, <<Num(65536)>>)
    /\ ~codec.encErr /\ codec.atyp = 3
    /\ codec.data = <<1, Lab("foo"), 0, 0>>

-----------------------------------------------------------------------------
(* SpecSync: the locks. Three goroutines, main (two reloads), the run()   *)
(* of one server and the handler of its connection, each a sequence of    *)
(* operations taken from the code: lock, rlock, unlock and runlock of a   *)
(* sync.RWMutex, read and write of a shared variable, io on a socket, and *)
(* the go statement that starts run(). A read, a write and an io take     *)
(* time: they begin and they end.                                         *)

Goroutines == {"main", "handler", "run"}
Mutexes == {"chains", "routing", "servers", "pac"}

Op(op, arg) == [op |-> op, arg |-> arg]
NoAccess == Op("", "")

\* the routes section is installed in JSON mode only; the PAC file is
\* reloaded in PAC mode only. Each table is read again for the Debugf
\* that follows its installation, after the lock is released.
InstallTables(pac) ==
    (IF pac THEN <<Op("lock", "pac"), Op("write", "pac"), Op("unlock", "pac")>> ELSE << >>)
    \o <<Op("lock", "chains"), Op("write", "proxychains"), Op("unlock", "chains"),
         Op("read", "proxychains"), Op("write", "gHosts"), Op("read", "gHosts")>>
    \o (IF pac THEN << >>
        ELSE <<Op("lock", "routing"), Op("write", "routing"), Op("unlock", "routing"),
               Op("read", "routing")>>)

\* main: a first reload that appends a server and starts it, then a
\* second reload that stops it (stop() reads running, calls cancel and
\* clears running) and deletes it, then the loop that reads running again
MainProgram(pac) ==
    InstallTables(pac)
    \o <<Op("lock", "servers"), Op("write", "servers"), Op("unlock", "servers"),
         Op("read", "running"), Op("go", "run")>>
    \o InstallTables(pac)
    \o <<Op("lock", "servers"), Op("read", "servers"),
         Op("read", "running"), Op("read", "cancel"), Op("write", "running"),
         Op("write", "servers"), Op("unlock", "servers"),
         Op("read", "running")>>

\* run(): the scope is created and stored in the server, running is set,
\* then Accept, s.ctx is read for the scope of the connection, the
\* handler is started, and s.ctx is read by the select
RunProgram ==
    <<Op("write", "ctx"), Op("write", "cancel"), Op("write", "running"),
      Op("io", "listener"), Op("read", "ctx"), Op("go", "handler"), Op("read", "ctx")>>

\* the end of every handler: the chain is looked up, connect reads the
\* hosts, and the target is dialled
LookupAndConnect ==
    <<Op("rlock", "chains"), Op("read", "proxychains"), Op("runlock", "chains"),
      Op("read", "gHosts"), Op("io", "target")>>

\* the handlers: forward; socks5 or http with a PAC file; socks5 or http
\* in JSON mode, with a table that is found or a table that is missing
HandlerPrograms(pac) ==
    {LookupAndConnect}
    \cup (IF pac
          THEN {<<Op("io", "client"), Op("rlock", "pac"), Op("read", "pac"),
                  Op("runlock", "pac")>> \o LookupAndConnect}
          ELSE {<<Op("io", "client"), Op("rlock", "routing"), Op("read", "routing"),
                  Op("runlock", "routing")>> \o LookupAndConnect,
                <<Op("io", "client"), Op("rlock", "routing"), Op("read", "routing"),
                  Op("io", "client"), Op("runlock", "routing")>>})

\* the operation goroutine g is at
Cur(g) ==
    IF sync.pc[g] \in 1..Len(sync.prog[g]) THEN sync.prog[g][sync.pc[g]] ELSE NoAccess

Advance(g) == [sync.pc EXCEPT ![g] = @ + 1]

\* mu.Lock()
SyncLock(g) ==
    /\ Cur(g).op = "lock"
    /\ sync.mu[Cur(g).arg] = [writer |-> "", readers |-> {}]
    /\ sync' = [sync EXCEPT !.mu[Cur(g).arg].writer = g, !.pc = Advance(g)]
    /\ UNCHANGED <<routeVars, evalVars, confVars, connVars, reloadVars, relayVars, dial,
                   handshakeVars>>

\* mu.RLock()
SyncRLock(g) ==
    /\ Cur(g).op = "rlock"
    /\ sync.mu[Cur(g).arg].writer = ""
    /\ sync' = [sync EXCEPT !.mu[Cur(g).arg].readers = @ \cup {g}, !.pc = Advance(g)]
    /\ UNCHANGED <<routeVars, evalVars, confVars, connVars, reloadVars, relayVars, dial,
                   handshakeVars>>

\* mu.Unlock()
SyncUnlock(g) ==
    /\ Cur(g).op = "unlock"
    /\ sync' = [sync EXCEPT !.mu[Cur(g).arg].writer = "", !.pc = Advance(g)]
    /\ UNCHANGED <<routeVars, evalVars, confVars, connVars, reloadVars, relayVars, dial,
                   handshakeVars>>

\* mu.RUnlock()
SyncRUnlock(g) ==
    /\ Cur(g).op = "runlock"
    /\ sync' = [sync EXCEPT !.mu[Cur(g).arg].readers = @ \ {g}, !.pc = Advance(g)]
    /\ UNCHANGED <<routeVars, evalVars, confVars, connVars, reloadVars, relayVars, dial,
                   handshakeVars>>

\* a read, a write or a socket operation begins
AccessBegin(g) ==
    /\ Cur(g).op \in {"read", "write", "io"}
    /\ sync.acc[g] = NoAccess
    /\ sync' = [sync EXCEPT !.acc[g] = Cur(g)]
    /\ UNCHANGED <<routeVars, evalVars, confVars, connVars, reloadVars, relayVars, dial,
                   handshakeVars>>

\* it ends: a socket operation ends when the peer lets it
AccessEnd(g) ==
    /\ sync.acc[g] # NoAccess
    /\ sync' = [sync EXCEPT !.acc[g] = NoAccess, !.pc = Advance(g)]
    /\ UNCHANGED <<routeVars, evalVars, confVars, connVars, reloadVars, relayVars, dial,
                   handshakeVars>>

\* go (gServerConf.servers[i]).run(), go s.handler.connHandle(...)
SyncGo(g) ==
    /\ Cur(g).op = "go"
    /\ sync' = [sync EXCEPT !.pc = [Advance(g) EXCEPT ![Cur(g).arg] = 1]]
    /\ UNCHANGED <<routeVars, evalVars, confVars, connVars, reloadVars, relayVars, dial,
                   handshakeVars>>

InitSync ==
    /\ \E pac \in BOOLEAN : \E h \in HandlerPrograms(pac) :
          sync = [mu   |-> [m \in Mutexes |-> [writer |-> "", readers |-> {}]],
                  pc   |-> [g \in Goroutines |-> IF g = "main" THEN 1 ELSE 0],
                  acc  |-> [g \in Goroutines |-> NoAccess],
                  prog |-> [g \in Goroutines |->
                               IF g = "main" THEN MainProgram(pac)
                               ELSE IF g = "handler" THEN h ELSE RunProgram]]
    /\ RouteOff /\ EvalOff /\ ConfOff /\ ConnOff /\ ReloadOff /\ RelayOff /\ DialOff
    /\ HandshakeOff

NextSync ==
    \E g \in Goroutines :
        \/ SyncLock(g)
        \/ SyncRLock(g)
        \/ SyncUnlock(g)
        \/ SyncRUnlock(g)
        \/ AccessBegin(g)
        \/ AccessEnd(g)
        \/ SyncGo(g)

SpecSync == InitSync /\ [][NextSync]_vars

\* the locks goroutine g holds
Held(g) == {m \in Mutexes : sync.mu[m].writer = g \/ g \in sync.mu[m].readers}
HeldForWriting(g) == {m \in Mutexes : sync.mu[m].writer = g}

\* the shared configuration state: the tables and the listener set
SharedState == {"proxychains", "routing", "gHosts", "pac", "servers", "running", "ctx", "cancel"}

\* C36: a goroutine that is writing a part of the shared configuration
\* state holds a writer lock, a goroutine that is reading one holds a
\* lock, and no part is written by one goroutine while another reads or
\* writes it.
C36_SharedStateUnderLocks ==
    /\ \A g \in Goroutines :
          sync.acc[g].arg \in SharedState =>
              IF sync.acc[g].op = "write" THEN HeldForWriting(g) # {} ELSE Held(g) # {}
    /\ \A g \in Goroutines : \A h \in Goroutines \ {g} :
          (sync.acc[g].op = "write" /\ sync.acc[h].arg = sync.acc[g].arg) =>
              sync.acc[g].arg \notin SharedState

\* C36 witness: main assigns gHosts with no lock held while the handler,
\* in connect, reads it with no lock held
C36_Witness ==
    /\ sync.acc["main"] = Op("write", "gHosts") /\ Held("main") = {}
    /\ sync.acc["handler"] = Op("read", "gHosts") /\ Held("handler") = {}

\* C37: a goroutine that is reading or writing a socket holds no lock.
C37_NoLockAcrossIO ==
    \A g \in Goroutines : sync.acc[g].op = "io" => Held(g) = {}

\* C37 witness: the handler that found no table for its listener is
\* writing its answer to the client with the reader lock of the routing
\* table held, and main, in a reload, waits for the writer lock
C37_Witness ==
    /\ sync.acc["handler"] = Op("io", "client")
    /\ "handler" \in sync.mu["routing"].readers
    /\ Cur("main") = Op("lock", "routing")

====
